---- MODULE Spec2Model ----
(***************************************************************************)
(* Preview-environment identifier resolution (scripts/preview-tool.py).    *)
(*                                                                         *)
(* A Python string is modelled as a sequence of tokens.  A token is either *)
(* one character (a letter, a digit, "-", the line feed) or one of the     *)
(* fixed words the program looks for ("preview-", "preview/", "pr-",       *)
(* "tusdi-", "origin/", "feature/").  No word can be spelled with other    *)
(* tokens, so a substring search for a word is a search for its tokens.    *)
(*                                                                         *)
(* The external world (commands on PATH, GitHub pull requests, git refs,   *)
(* namespace annotations, ArgoCD applications) is chosen in Init and a     *)
(* resolution reads it through the same commands as the code; every        *)
(* command handed to run_command is appended to the call log.              *)
(* A call applies to the world the effect of every command it ran, and the *)
(* caller may follow its first call with a second one in the same world.   *)
(***************************************************************************)
EXTENDS Integers, Sequences, FiniteSets, TLC

VARIABLES
    installed,       \* commands found on PATH
    prs,             \* prs[repo][n]: pull request n of the GitHub repo
    checkouts,       \* repositories checked out under repos/
    branchLines,     \* output lines of `git branch -r` in repos/dem2-infra
    dem2Tags,        \* refs/tags of repos/dem2, newest creation date first
    ancestors,       \* pairs <<tag, ref>>: tag is an ancestor of ref (dem2)
    dem2RemoteRefs,  \* refs of repos/dem2 that `rev-parse --verify` finds
    nsAnnotations,   \* annotations of the namespace asked for (kubectl)
    argocdApps,      \* `argocd app list` output
    id_type,         \* argument of resolve
    identifier,      \* argument of resolve
    pc,              \* "ready" before the first call, "done" after a call
    result,          \* what the last call of resolve returned or raised
    calls,           \* commands the last call handed to run_command, in order
    prev,            \* request and outcome of the call before the last one
    webuiTags,       \* refs/tags of repos/dem2-webui
    remoteTags,      \* remoteTags[repo]: refs/tags on origin of dem2, dem2-webui
    refused,         \* writing commands the environment makes exit non-zero
    command,         \* subcommand on the command line: "info" or "delete"
    args,            \* args[option]: the argparse namespace of the subcommand
    exit_code,       \* exit status of the process, -1 before it has run
    started,         \* show_info or delete was called
    op_calls,        \* commands show_info or delete handed to run_command
    removed_count,   \* removed_count of delete
    skipped_count,   \* skipped_count of delete
    services,        \* items of `kubectl get services -A -o json`
    kubectl_rc,      \* exit status of `kubectl get services`
    config,          \* config.port_forward: pairs <<namespace, service_name>>
    pf_pc,           \* where amain and, after it, task_runner stand
    coroq,           \* the queue of get_task_runner: forwarders not yet got
    tasks,           \* the set tasks of task_runner
    tq_pc,           \* the task made of task_queue() in the while loop
    fwd,             \* fwd[k]: the k-th coroutine of start_port_forward
    cluster,         \* ConfigMaps and Secrets of the namespace, as kubectl answers
    container_spec,  \* the container spec: pairs <<key, list>> in JSON order
    imp_pc,          \* where process_container_env stands
    env_from_left,   \* entries of envFrom the first loop has not reached
    env_left,        \* entries of env the second loop has not reached
    imp              \* result.env_vars, result.errors, result.warnings, the
                     \* two caches and the kubectl commands run so far

extVars == <<installed, prs, checkouts, branchLines, dem2Tags, ancestors, dem2RemoteRefs,
             nsAnnotations, argocdApps, webuiTags, remoteTags, refused>>
cliVars == <<command, args, exit_code, started, op_calls, removed_count,
             skipped_count>>
pfVars == <<services, kubectl_rc, config, pf_pc, coroq, tasks, tq_pc, fwd>>
toolVars == <<installed, prs, checkouts, branchLines, dem2Tags, ancestors,
              dem2RemoteRefs, nsAnnotations, argocdApps, id_type, identifier, pc,
              result, calls, prev, webuiTags, remoteTags, refused, cliVars>>
importVars == <<cluster, container_spec, imp_pc, env_from_left, env_left, imp>>
vars == <<toolVars, pfVars, importVars>>

\* ------------------------------------------------------------------------
\* Bounds of the model
\* ------------------------------------------------------------------------
MaxBranchLines == 2      \* lines printed by `git branch -r`
MaxTags == 2             \* tags of repos/dem2
MaxPorts == 2            \* ports of one Kubernetes service
MaxEntries == 2          \* entries of envFrom, and of env, of a container

\* ------------------------------------------------------------------------
\* Python strings
\* ------------------------------------------------------------------------
NL == "\n"
DigitChars == <<"0", "1", "2", "3", "4", "5", "6", "7", "8", "9">>
Digits == {DigitChars[i] : i \in 1..Len(DigitChars)}
DigitVal(c) == (CHOOSE i \in 1..Len(DigitChars) : DigitChars[i] = c) - 1

Front(s) == SubSeq(s, 1, Len(s) - 1)
Last(s) == s[Len(s)]
Chars(s) == {s[i] : i \in 1..Len(s)}

StartsWith(s, p) == Len(s) >= Len(p) /\ SubSeq(s, 1, Len(p)) = p

\* "^2" stands for the one character SUPERSCRIPT TWO (U+00B2): a digit for
\* str.isdigit(), not a decimal digit for int() or for \d
Superscript2 == "^2"

\* one or more decimal digits: what \d+ matches and what int() converts
IsDecimal(s) == Len(s) > 0 /\ Chars(s) \subseteq Digits

\* str.isdigit(): at least one character and every character a digit
IsDigit(s) == Len(s) > 0 /\ Chars(s) \subseteq (Digits \cup {Superscript2})

\* int(s) raises ValueError, for a string without white space
IntRaises(s) == ~IsDecimal(s)

\* int(s) for a string of decimal digits
RECURSIVE ParseInt(_)
ParseInt(s) ==
    IF s = <<>> THEN 0 ELSE 10 * ParseInt(Front(s)) + DigitVal(Last(s))

\* str(n) for n >= 0
RECURSIVE FormatInt(_)
FormatInt(n) ==
    IF n < 10 THEN <<DigitChars[n + 1]>>
    ELSE FormatInt(n \div 10) \o <<DigitChars[(n % 10) + 1]>>

\* old in s
RECURSIVE StrContains(_, _)
StrContains(s, old) ==
    IF Len(s) < Len(old) THEN FALSE
    ELSE StartsWith(s, old) \/ StrContains(Tail(s), old)

\* s.replace(old, new): every non-overlapping occurrence, left to right
RECURSIVE StrReplace(_, _, _)
StrReplace(s, old, new) ==
    IF s = <<>> THEN <<>>
    ELSE IF StartsWith(s, old)
         THEN new \o StrReplace(SubSeq(s, Len(old) + 1, Len(s)), old, new)
         ELSE <<Head(s)>> \o StrReplace(Tail(s), old, new)

NoMatch == [matched |-> FALSE, group |-> <<>>]

\* What "$" leaves for the group: "$" matches at the end of the string and
\* also just before a line feed that is the last character.
BeforeDollar(rest) ==
    IF rest # <<>> /\ Last(rest) = NL THEN Front(rest) ELSE rest

\* re.match("^" + prefix + "(.+)$", s): "." is any character but line feed
ReMatchAny(prefix, s) ==
    IF ~StartsWith(s, prefix) THEN NoMatch
    ELSE LET body == BeforeDollar(SubSeq(s, Len(prefix) + 1, Len(s)))
         IN  IF body # <<>> /\ NL \notin Chars(body)
             THEN [matched |-> TRUE, group |-> body]
             ELSE NoMatch

\* re.match("^" + prefix + "(\d+)$", s)
ReMatchDigits(prefix, s) ==
    IF ~StartsWith(s, prefix) THEN NoMatch
    ELSE LET body == BeforeDollar(SubSeq(s, Len(prefix) + 1, Len(s)))
         IN  IF IsDecimal(body)
             THEN [matched |-> TRUE, group |-> body]
             ELSE NoMatch

\* ------------------------------------------------------------------------
\* Configuration and data classes
\* ------------------------------------------------------------------------
IdentifierType ==
    {"git-tag", "argocd-app", "gke-namespace", "infra-branch", "pr", "git-branch"}

NoPR == [found |-> FALSE, head_ref |-> <<>>, state |-> "NONE"]
PR(head, st) == [found |-> TRUE, head_ref |-> head, state |-> st]

\* ------------------------------------------------------------------------
\* Command utilities
\* ------------------------------------------------------------------------
Cmd(prog, op, repo, arg, arg2) ==
    [prog |-> prog, op |-> op, repo |-> repo, arg |-> arg, arg2 |-> arg2]

\* run_command raises CommandNotFoundError when the program is not on PATH
RunRaises(prog) == prog \notin installed

\* check_command_available(cmd): runs `which cmd`
CheckCommandAvailable(cmd) ==
    [raised |-> RunRaises("which"),
     value  |-> ~RunRaises("which") /\ cmd \in installed,
     calls  |-> <<Cmd("which", "", "", <<cmd>>, <<>>)>>]

\* str.strip() on the strings of the model: spaces and line feeds at both ends
RECURSIVE LStrip(_)
LStrip(s) ==
    IF s # <<>> /\ Head(s) \in {" ", NL} THEN LStrip(Tail(s)) ELSE s

RECURSIVE RStrip(_)
RStrip(s) ==
    IF s # <<>> /\ Last(s) \in {" ", NL} THEN RStrip(Front(s)) ELSE s

Strip(s) == RStrip(LStrip(s))

\* ------------------------------------------------------------------------
\* Git operations
\* ------------------------------------------------------------------------
PreviewTagOf(branch) == <<"preview-">> \o branch          \* f"preview-{branch}"
OriginRef(branch) == <<"origin/">> \o branch              \* f"origin/{branch}"

\* the loop of get_remote_preview_branches over result.stdout.splitlines()
RECURSIVE PreviewBranchesOf(_)
PreviewBranchesOf(lines) ==
    IF lines = <<>> THEN <<>>
    ELSE LET line == Strip(Head(lines))
         IN  IF StrContains(line, <<"origin/", "preview/">>)
             THEN <<StrReplace(line, <<"origin/", "preview/">>, <<>>)>>
                      \o PreviewBranchesOf(Tail(lines))
             ELSE PreviewBranchesOf(Tail(lines))

\* get_remote_preview_branches(INFRA_REPO)
GetRemotePreviewBranches ==
    IF "dem2-infra" \notin checkouts
    THEN [raised |-> FALSE, value |-> <<>>, calls |-> <<>>]
    ELSE [raised |-> RunRaises("git"),
          value  |-> IF RunRaises("git") THEN <<>>
                     ELSE PreviewBranchesOf(branchLines),
          calls  |-> <<Cmd("git", "branch -r", "dem2-infra", <<>>, <<>>)>>]

\* `git tag -l "preview-*" --sort=-creatordate` prints the tags matching the
\* glob, newest first
RECURSIVE TagListOutput(_)
TagListOutput(tags) ==
    IF tags = <<>> THEN <<>>
    ELSE IF StartsWith(Head(tags), <<"preview-">>)
         THEN <<Head(tags)>> \o TagListOutput(Tail(tags))
         ELSE TagListOutput(Tail(tags))

\* the list comprehension of get_preview_tags_sorted
RECURSIVE StripNonEmpty(_)
StripNonEmpty(lines) ==
    IF lines = <<>> THEN <<>>
    ELSE IF Strip(Head(lines)) # <<>>
         THEN <<Strip(Head(lines))>> \o StripNonEmpty(Tail(lines))
         ELSE StripNonEmpty(Tail(lines))

\* get_preview_tags_sorted(DEM2_REPO)
GetPreviewTagsSorted ==
    IF "dem2" \notin checkouts
    THEN [raised |-> FALSE, value |-> <<>>, calls |-> <<>>]
    ELSE [raised |-> RunRaises("git"),
          value  |-> IF RunRaises("git") THEN <<>>
                     ELSE StripNonEmpty(TagListOutput(dem2Tags)),
          calls  |-> <<Cmd("git", "tag -l", "dem2", <<"preview-", "*">>, <<>>)>>]

\* `git -C repos/dem2 rev-parse <tag>` exits 0
RevParseOk(tag) == \E i \in 1..Len(dem2Tags) : dem2Tags[i] = tag

\* `git -C repos/dem2 rev-parse --verify <ref>` exits 0
RevParseVerifyOk(ref) == ref \in dem2RemoteRefs

\* check_tag_is_ancestor(DEM2_REPO, tag, branch)
CheckTagIsAncestor(tag, branch) == <<tag, branch>> \in ancestors

\* the tag probe of the resolution loops run as a tag deletion
RevParseCall_Delete(tag) == Cmd("git", "tag -d", "dem2", tag, <<>>)

\* the git commands of the resolution loops, as the call log records them
RevParseCall(tag) == Cmd("git", "rev-parse", "dem2", tag, <<>>)

VerifyCall(ref) == Cmd("git", "rev-parse --verify", "dem2", ref, <<>>)

IsAncestorCall(tag, ref) == Cmd("git", "merge-base --is-ancestor", "dem2", tag, ref)

\* str.lower()
LowerChar(c) == CASE c = "ArgoCD" -> "argocd" [] c = "App" -> "app" [] OTHER -> c
Lower(s) == [i \in 1..Len(s) |-> LowerChar(s[i])]

\* ------------------------------------------------------------------------
\* Kubernetes operations
\* ------------------------------------------------------------------------
NoValue == [raised |-> FALSE, value |-> <<>>, calls |-> <<>>]

\* get_namespace_annotations(namespace); the value <<>> stands for None and
\* for the empty dict, which the caller does not tell apart
GetNamespaceAnnotations(namespace) ==
    LET a == CheckCommandAvailable("kubectl")
        get == <<Cmd("kubectl", "get namespace", "", namespace, <<>>)>>
    IN  IF a.raised THEN [raised |-> TRUE, value |-> <<>>, calls |-> a.calls]
        ELSE IF ~a.value
        THEN [raised |-> FALSE, value |-> <<>>, calls |-> a.calls]
        ELSE [raised |-> FALSE,
              value |-> IF nsAnnotations.ok THEN nsAnnotations.items ELSE <<>>,
              calls |-> a.calls \o get]

\* get_argocd_app_from_namespace: the loop over annotations.items()
RECURSIVE FirstAppAnnotation(_)
FirstAppAnnotation(items) ==
    IF items = <<>> THEN <<>>
    ELSE LET key == Head(items).key
             value == Head(items).value
         IN  IF /\ StrContains(Lower(key), <<"argocd">>)
                /\ StrContains(Lower(key), <<"app">>)
             THEN value
             ELSE IF key = <<"app", ".kubernetes.io/instance">>
             THEN value
             ELSE FirstAppAnnotation(Tail(items))

\* get_argocd_app_from_namespace(namespace); <<>> stands for None and ""
GetArgocdAppFromNamespace(namespace) ==
    LET annotations == GetNamespaceAnnotations(namespace)
    IN  [raised |-> annotations.raised,
         value  |-> FirstAppAnnotation(annotations.value),
         calls  |-> annotations.calls]

\* ------------------------------------------------------------------------
\* ArgoCD operations
\* ------------------------------------------------------------------------
\* list_argocd_apps(); <<>> stands for None and for the empty list
ListArgocdApps ==
    LET a == CheckCommandAvailable("argocd")
        list == <<Cmd("argocd", "app list", "", <<>>, <<>>)>>
    IN  IF a.raised THEN [raised |-> TRUE, value |-> <<>>, calls |-> a.calls]
        ELSE IF ~a.value
        THEN [raised |-> FALSE, value |-> <<>>, calls |-> a.calls]
        ELSE [raised |-> FALSE,
              value |-> IF argocdApps.ok THEN argocdApps.apps ELSE <<>>,
              calls |-> a.calls \o list]

\* get_argocd_app_for_namespace: the loop over apps
RECURSIVE FirstAppDeployingTo(_, _)
FirstAppDeployingTo(apps, namespace) ==
    IF apps = <<>> THEN <<>>
    ELSE IF Head(apps).namespace = namespace THEN Head(apps).name
    ELSE FirstAppDeployingTo(Tail(apps), namespace)

\* get_argocd_app_for_namespace(namespace)
GetArgocdAppForNamespace(namespace) ==
    LET apps == ListArgocdApps
    IN  [raised |-> apps.raised,
         value  |-> FirstAppDeployingTo(apps.value, namespace),
         calls  |-> apps.calls]

\* ------------------------------------------------------------------------
\* GitHub operations
\* ------------------------------------------------------------------------
\* `gh pr view n --repo NumberOne-AI/<repo>`
GhPrView(repo, n) ==
    IF n \in DOMAIN prs[repo] THEN prs[repo][n] ELSE NoPR

\* get_pr_info(repo, pr_number)
GetPrInfo(repo, n) ==
    LET a == CheckCommandAvailable("gh")
        view == <<Cmd("gh", "pr view", repo, FormatInt(n), <<>>)>>
    IN  IF a.raised
        THEN [raised |-> TRUE, info |-> NoPR, calls |-> a.calls]
        ELSE IF ~a.value
        THEN [raised |-> FALSE, info |-> NoPR, calls |-> a.calls]
        ELSE [raised |-> FALSE, info |-> GhPrView(repo, n),
              calls |-> a.calls \o view]

\* numbers of the open pull requests of repo whose head branch is branch
OpenPRsWithHead(repo, branch) ==
    {n \in DOMAIN prs[repo] :
        /\ prs[repo][n].found
        /\ prs[repo][n].state = "OPEN"
        /\ prs[repo][n].head_ref = branch}

\* `gh pr list --head branch --json number --jq .[0].number`: the newest
\* open pull request, nothing printed when there is none
GhPrListFirst(repo, branch) ==
    LET open == OpenPRsWithHead(repo, branch)
    IN  IF open = {} THEN 0
        ELSE CHOOSE n \in open : \A m \in open : m <= n

\* get_pr_by_branch(repo, branch); value 0 stands for None
GetPrByBranch(repo, branch) ==
    LET a == CheckCommandAvailable("gh")
        list == <<Cmd("gh", "pr list", repo, branch, <<>>)>>
    IN  IF a.raised
        THEN [raised |-> TRUE, value |-> 0, calls |-> a.calls]
        ELSE IF ~a.value
        THEN [raised |-> FALSE, value |-> 0, calls |-> a.calls]
        ELSE [raised |-> FALSE, value |-> GhPrListFirst(repo, branch),
              calls |-> a.calls \o list]

\* ------------------------------------------------------------------------
\* Preview environment resolution
\* ------------------------------------------------------------------------
Resolved(pid, c) == [status |-> "ok", preview_id |-> pid, calls |-> c]
Raised(exc, c) == [status |-> exc, preview_id |-> <<>>, calls |-> c]

\* PreviewEnvironment._resolve_git_tag
ResolveGitTagResult(ident) ==
    LET match == ReMatchAny(<<"preview-">>, ident)
    IN  IF ~match.matched THEN Raised("ResolutionError", <<>>)
        ELSE Resolved(match.group, <<>>)

\* PreviewEnvironment._resolve_infra_branch
ResolveInfraBranchResult(ident) ==
    LET match == ReMatchAny(<<"preview/">>, ident)
    IN  IF ~match.matched THEN Raised("ResolutionError", <<>>)
        ELSE Resolved(match.group, <<>>)

\* _resolve_argocd_app taking the head branch of the pull request as it is
ResolveArgocdApp_AnyBranch(ident) ==
    LET match == ReMatchDigits(<<"preview-", "pr-">>, ident)
        gh == CheckCommandAvailable("gh")
        pr == GetPrInfo("dem2-infra", ParseInt(match.group))
        branch_match == ReMatchAny(<<"preview/">>, pr.info.head_ref)
    IN  IF ~match.matched THEN Raised("ResolutionError", <<>>)
        ELSE IF gh.raised \/ ~gh.value
        THEN Raised("CommandNotFoundError", gh.calls)
        ELSE IF ~pr.info.found
        THEN Raised("ResolutionError", gh.calls \o pr.calls)
        ELSE IF ~branch_match.matched
        THEN Resolved(pr.info.head_ref, gh.calls \o pr.calls)
        ELSE Resolved(branch_match.group, gh.calls \o pr.calls)

\* PreviewEnvironment._resolve_argocd_app
ResolveArgocdAppResult(ident) ==
    LET match == ReMatchDigits(<<"preview-", "pr-">>, ident)
        gh == CheckCommandAvailable("gh")
        infra_pr_num == ParseInt(match.group)
        pr == GetPrInfo("dem2-infra", infra_pr_num)
        branch_match == ReMatchAny(<<"preview/">>, pr.info.head_ref)
    IN  IF ~match.matched THEN Raised("ResolutionError", <<>>)
        ELSE IF gh.raised \/ ~gh.value
        THEN Raised("CommandNotFoundError", gh.calls)
        ELSE IF pr.raised
        THEN Raised("CommandNotFoundError", gh.calls \o pr.calls)
        ELSE IF ~pr.info.found
        THEN Raised("ResolutionError", gh.calls \o pr.calls)
        ELSE IF ~branch_match.matched
        THEN Raised("ResolutionError", gh.calls \o pr.calls)
        ELSE Resolved(branch_match.group, gh.calls \o pr.calls)

NotFound == [preview_id |-> <<>>, calls |-> <<>>]
Before(cs, r) == [preview_id |-> r.preview_id, calls |-> cs \o r.calls]

\* the loop of _resolve_pr taking the first branch whose tag exists
RECURSIVE BranchTierPr_NoAncestorCheck(_, _)
BranchTierPr_NoAncestorCheck(branches, dem2_branch) ==
    IF branches = <<>> THEN NotFound
    ELSE LET infra_branch == Head(branches)
             tag == PreviewTagOf(infra_branch)
         IN  IF ~RevParseOk(tag)
             THEN Before(<<RevParseCall(tag)>>,
                         BranchTierPr_NoAncestorCheck(Tail(branches), dem2_branch))
             ELSE [preview_id |-> infra_branch, calls |-> <<RevParseCall(tag)>>]

\* _resolve_pr: the loop over preview_branches
RECURSIVE BranchTierPr(_, _)
BranchTierPr(branches, dem2_branch) ==
    IF branches = <<>> THEN NotFound
    ELSE LET infra_branch == Head(branches)
             tag == PreviewTagOf(infra_branch)
             ref == OriginRef(dem2_branch)
         IN  IF ~RevParseOk(tag)
             THEN Before(<<RevParseCall(tag)>>,
                         BranchTierPr(Tail(branches), dem2_branch))
             ELSE IF CheckTagIsAncestor(tag, ref)
             THEN [preview_id |-> infra_branch,
                   calls |-> <<RevParseCall(tag), IsAncestorCall(tag, ref)>>]
             ELSE Before(<<RevParseCall(tag), IsAncestorCall(tag, ref)>>,
                         BranchTierPr(Tail(branches), dem2_branch))

\* tag_id = tag.replace("preview-", "")
TagId(tag) == StrReplace(tag, <<"preview-">>, <<>>)

\* the tag loop of _resolve_pr taking the newest tag whatever its history
RECURSIVE TagTierPr_AnyTag(_, _)
TagTierPr_AnyTag(tags, dem2_branch) ==
    IF tags = <<>> THEN NotFound
    ELSE [preview_id |-> TagId(Head(tags)),
          calls |-> <<IsAncestorCall(Head(tags), OriginRef(dem2_branch))>>]

\* _resolve_pr: the loop over tags
RECURSIVE TagTierPr(_, _)
TagTierPr(tags, dem2_branch) ==
    IF tags = <<>> THEN NotFound
    ELSE LET tag == Head(tags)
             ref == OriginRef(dem2_branch)
         IN  IF CheckTagIsAncestor(tag, ref)
             THEN [preview_id |-> TagId(tag),
                   calls |-> <<IsAncestorCall(tag, ref)>>]
             ELSE Before(<<IsAncestorCall(tag, ref)>>,
                         TagTierPr(Tail(tags), dem2_branch))

\* _resolve_pr from "dem2_branch = pr_info.head_ref" to the end
AncestorSearchPr(dem2_branch) ==
    LET listing == GetRemotePreviewBranches
        tier1 == BranchTierPr(listing.value, dem2_branch)
        tagl == GetPreviewTagsSorted
        tier2 == TagTierPr(tagl.value, dem2_branch)
    IN  IF listing.raised THEN Raised("CommandNotFoundError", listing.calls)
        ELSE IF tier1.preview_id # <<>>
        THEN Resolved(tier1.preview_id, listing.calls \o tier1.calls)
        ELSE IF tagl.raised
        THEN Raised("CommandNotFoundError",
                    listing.calls \o tier1.calls \o tagl.calls)
        ELSE IF tier2.preview_id # <<>>
        THEN Resolved(tier2.preview_id,
                      listing.calls \o tier1.calls \o tagl.calls \o tier2.calls)
        ELSE Raised("ResolutionError",
                    listing.calls \o tier1.calls \o tagl.calls \o tier2.calls)

After(cs, r) == [status |-> r.status, preview_id |-> r.preview_id,
                 calls |-> cs \o r.calls]

\* _resolve_pr without the check of dem2-infra
InfraPrMatch_Never(infra) == NoMatch

\* _resolve_pr: the check of dem2-infra
InfraPrMatch(infra) ==
    IF infra.info.found THEN ReMatchAny(<<"preview/">>, infra.info.head_ref)
    ELSE NoMatch

\* PreviewEnvironment._resolve_pr
ResolvePrResult(ident) ==
    LET gh == CheckCommandAvailable("gh")
        pr_num == ParseInt(ident)
        infra == GetPrInfo("dem2-infra", pr_num)
        branch_match == InfraPrMatch(infra)
        app == GetPrInfo("dem2", pr_num)
        sofar == gh.calls \o infra.calls \o app.calls
    IN  IF ~IsDigit(ident) THEN Raised("ResolutionError", <<>>)
        ELSE IF gh.raised \/ ~gh.value
        THEN Raised("CommandNotFoundError", gh.calls)
        ELSE IF IntRaises(ident) THEN Raised("ValueError", gh.calls)
        ELSE IF infra.raised
        THEN Raised("CommandNotFoundError", gh.calls \o infra.calls)
        ELSE IF branch_match.matched
        THEN Resolved(branch_match.group, gh.calls \o infra.calls)
        ELSE IF app.raised THEN Raised("CommandNotFoundError", sofar)
        ELSE IF ~app.info.found THEN Raised("ResolutionError", sofar)
        ELSE After(sofar, AncestorSearchPr(app.info.head_ref))

\* the loop of _resolve_git_branch without its break
RECURSIVE BranchTierGitBranch_NoBreak(_, _)
BranchTierGitBranch_NoBreak(branches, ident) ==
    IF branches = <<>> THEN NotFound
    ELSE LET infra_branch == Head(branches)
             tag == PreviewTagOf(infra_branch)
             ref == OriginRef(ident)
             rest == BranchTierGitBranch_NoBreak(Tail(branches), ident)
         IN  IF ~RevParseOk(tag)
             THEN Before(<<RevParseCall(tag)>>, rest)
             ELSE IF CheckTagIsAncestor(tag, ref) /\ rest.preview_id = <<>>
             THEN [preview_id |-> infra_branch,
                   calls |-> <<RevParseCall(tag), VerifyCall(ref),
                               IsAncestorCall(tag, ref)>> \o rest.calls]
             ELSE Before(<<RevParseCall(tag), VerifyCall(ref),
                           IsAncestorCall(tag, ref)>>, rest)

\* _resolve_git_branch: the loop over preview_branches
RECURSIVE BranchTierGitBranch(_, _)
BranchTierGitBranch(branches, ident) ==
    IF branches = <<>> THEN NotFound
    ELSE LET infra_branch == Head(branches)
             tag == PreviewTagOf(infra_branch)
             ref == OriginRef(ident)
             rest == BranchTierGitBranch(Tail(branches), ident)
         IN  IF ~RevParseOk(tag)
             THEN Before(<<RevParseCall(tag)>>, rest)
             ELSE IF ~RevParseVerifyOk(ref)
             THEN Before(<<RevParseCall(tag), VerifyCall(ref)>>, rest)
             ELSE IF CheckTagIsAncestor(tag, ref)
             THEN [preview_id |-> infra_branch,
                   calls |-> <<RevParseCall(tag), VerifyCall(ref),
                               IsAncestorCall(tag, ref)>>]
             ELSE Before(<<RevParseCall(tag), VerifyCall(ref),
                           IsAncestorCall(tag, ref)>>, rest)

\* _resolve_git_branch: the loop over tags
RECURSIVE TagTierGitBranch(_, _)
TagTierGitBranch(tags, ident) ==
    IF tags = <<>> THEN NotFound
    ELSE LET tag == Head(tags)
             ref == OriginRef(ident)
             rest == TagTierGitBranch(Tail(tags), ident)
         IN  IF ~RevParseVerifyOk(ref)
             THEN Before(<<VerifyCall(ref)>>, rest)
             ELSE IF CheckTagIsAncestor(tag, ref)
             THEN [preview_id |-> TagId(tag),
                   calls |-> <<VerifyCall(ref), IsAncestorCall(tag, ref)>>]
             ELSE Before(<<VerifyCall(ref), IsAncestorCall(tag, ref)>>, rest)

\* _resolve_git_branch from "preview_id = None" to the end
AncestorSearchGitBranch(ident) ==
    LET listing == GetRemotePreviewBranches
        tier1 == BranchTierGitBranch(listing.value, ident)
        tagl == GetPreviewTagsSorted
        tier2 == TagTierGitBranch(tagl.value, ident)
    IN  IF listing.raised THEN Raised("CommandNotFoundError", listing.calls)
        ELSE IF tier1.preview_id # <<>>
        THEN Resolved(tier1.preview_id, listing.calls \o tier1.calls)
        ELSE IF tagl.raised
        THEN Raised("CommandNotFoundError",
                    listing.calls \o tier1.calls \o tagl.calls)
        ELSE IF tier2.preview_id # <<>>
        THEN Resolved(tier2.preview_id,
                      listing.calls \o tier1.calls \o tagl.calls \o tier2.calls)
        ELSE Raised("ResolutionError",
                    listing.calls \o tier1.calls \o tagl.calls \o tier2.calls)

\* _resolve_git_branch without its check of the gh CLI
ResolveGitBranch_NoGhCheck(ident) ==
    LET pr_num == GetPrByBranch("dem2", ident)
    IN  IF pr_num.raised THEN Raised("CommandNotFoundError", pr_num.calls)
        ELSE IF pr_num.value = 0 THEN Raised("ResolutionError", pr_num.calls)
        ELSE After(pr_num.calls, AncestorSearchGitBranch(ident))

\* PreviewEnvironment._resolve_git_branch
ResolveGitBranchResult(ident) ==
    LET gh == CheckCommandAvailable("gh")
        pr_num == GetPrByBranch("dem2", ident)
        sofar == gh.calls \o pr_num.calls
    IN  IF gh.raised \/ ~gh.value
        THEN Raised("CommandNotFoundError", gh.calls)
        ELSE IF pr_num.raised THEN Raised("CommandNotFoundError", sofar)
        ELSE IF pr_num.value = 0 THEN Raised("ResolutionError", sofar)
        ELSE After(sofar, AncestorSearchGitBranch(ident))

\* _resolve_gke_namespace never reading the head branch of the pull request
BranchIdOrNumber_Number(pr, infra_pr_num) == FormatInt(infra_pr_num)

\* _resolve_gke_namespace: the branch of an infra pull request, or its number
BranchIdOrNumber(pr, infra_pr_num) ==
    LET branch_match == ReMatchAny(<<"preview/">>, pr.info.head_ref)
    IN  IF pr.info.found /\ branch_match.matched THEN branch_match.group
        ELSE FormatInt(infra_pr_num)

\* _resolve_gke_namespace: the namespace is tusdi-preview-NUMBER
ResolveGkePreviewNamespace(number) ==
    LET infra_pr_num == ParseInt(number)
        gh == CheckCommandAvailable("gh")
        pr == GetPrInfo("dem2-infra", infra_pr_num)
    IN  IF gh.raised THEN Raised("CommandNotFoundError", gh.calls)
        ELSE IF ~gh.value THEN Resolved(FormatInt(infra_pr_num), gh.calls)
        ELSE IF pr.raised
        THEN Raised("CommandNotFoundError", gh.calls \o pr.calls)
        ELSE Resolved(BranchIdOrNumber(pr, infra_pr_num), gh.calls \o pr.calls)

\* _resolve_gke_namespace: an ArgoCD application was found
ResolveGkeFromApp(argocd_app) ==
    LET app_match == ReMatchDigits(<<"preview-", "pr-">>, argocd_app)
        infra_pr_num == ParseInt(app_match.group)
        gh == CheckCommandAvailable("gh")
        pr == GetPrInfo("dem2-infra", infra_pr_num)
    IN  IF ~app_match.matched THEN Resolved(argocd_app, <<>>)
        ELSE IF gh.raised THEN Raised("CommandNotFoundError", gh.calls)
        ELSE IF ~gh.value THEN Resolved(FormatInt(infra_pr_num), gh.calls)
        ELSE IF pr.raised
        THEN Raised("CommandNotFoundError", gh.calls \o pr.calls)
        ELSE Resolved(BranchIdOrNumber(pr, infra_pr_num), gh.calls \o pr.calls)

\* PreviewEnvironment._resolve_gke_namespace
ResolveGkeNamespaceResult(ident) ==
    LET match == ReMatchDigits(<<"tusdi-", "preview-">>, ident)
        fromAnn == GetArgocdAppFromNamespace(ident)
        fromList == IF fromAnn.value = <<>> THEN GetArgocdAppForNamespace(ident)
                    ELSE NoValue
        argocd_app == IF fromAnn.value = <<>> THEN fromList.value
                      ELSE fromAnn.value
        sofar == fromAnn.calls \o fromList.calls
    IN  IF match.matched THEN ResolveGkePreviewNamespace(match.group)
        ELSE IF fromAnn.raised
        THEN Raised("CommandNotFoundError", fromAnn.calls)
        ELSE IF fromList.raised THEN Raised("CommandNotFoundError", sofar)
        ELSE IF argocd_app # <<>>
        THEN After(sofar, ResolveGkeFromApp(argocd_app))
        ELSE Resolved(ident, sofar)

\* PreviewEnvironment.resolve: the dispatch on id_type
ResolveResult(t, ident) ==
    CASE t = "git-tag"       -> ResolveGitTagResult(ident)
      [] t = "argocd-app"    -> ResolveArgocdAppResult(ident)
      [] t = "gke-namespace" -> ResolveGkeNamespaceResult(ident)
      [] t = "infra-branch"  -> ResolveInfraBranchResult(ident)
      [] t = "pr"            -> ResolvePrResult(ident)
      [] t = "git-branch"    -> ResolveGitBranchResult(ident)
      [] OTHER               -> Raised("ResolutionError", <<>>)

\* _resolve_git_branch passing the kind of _resolve_pr to the constructor
ReturnedKind_AsPr(t) == IF t = "git-branch" THEN "pr" ELSE t

\* the IdentifierType the return statements of _resolve_<t> pass to cls(...)
ReturnedKind(t) ==
    CASE t = "git-tag"       -> "git-tag"
      [] t = "argocd-app"    -> "argocd-app"
      [] t = "gke-namespace" -> "gke-namespace"
      [] t = "infra-branch"  -> "infra-branch"
      [] t = "pr"            -> "pr"
      [] t = "git-branch"    -> "git-branch"

\* PreviewEnvironment.__init__, or the exception that left resolve
Outcome(r, t, ident) ==
    IF r.status = "ok"
    THEN [status |-> "ok", preview_id |-> r.preview_id,
          id_type |-> ReturnedKind(t), original_identifier |-> ident]
    ELSE [status |-> r.status, preview_id |-> <<>>, id_type |-> "",
          original_identifier |-> <<>>]

NoResult == [status |-> "none", preview_id |-> <<>>, id_type |-> "",
             original_identifier |-> <<>>]

\* ------------------------------------------------------------------------
\* The worlds and the requests of the model
\* ------------------------------------------------------------------------
AllTools == {"which", "gh", "git", "kubectl", "argocd"}

\* every command installed but some of those in vary
ToolSets(vary) == {AllTools \ missing : missing \in SUBSET vary}

\* every command installed but at most one of those in vary
OneMissing(vary) == {AllTools} \cup {AllTools \ {c} : c \in vary}

\* sequences without repetition of at most n elements of S
RECURSIVE DistinctSeqs(_, _)
DistinctSeqs(S, n) ==
    IF n = 0 THEN {<<>>}
    ELSE LET shorter == DistinctSeqs(S, n - 1)
         IN  shorter \cup
             {Append(q, x) : <<q, x>> \in
                 {<<q, x>> \in shorter \X S : x \notin Chars(q)}}

PRNums == {1, 2}
Repos == {"dem2", "dem2-infra"}
\* the repositories delete removes tags from, in the order of its loop
AppRepos == {"dem2", "dem2-webui"}

\* the options of add_identifier_args, in the order _parse_identifier_args
\* tests them; an option not given is None
Options == <<"git_tag", "argocd_app", "gke_namespace", "infra_branch", "pr",
             "git_branch">>
None == [given |-> FALSE, value |-> <<>>]
Given(v) == [given |-> TRUE, value |-> v]

BranchA == <<"a">>
BranchB == <<"b">>
FeatureX == <<"feature/", "x">>
FeatureY == <<"feature/", "y">>

InfraHeads == {<<"preview/">> \o BranchA, <<"main">>}
InfraPRValues == {NoPR} \cup {PR(h, "OPEN") : h \in InfraHeads}
Dem2PRValues ==
    {NoPR, PR(FeatureX, "OPEN"), PR(FeatureX, "MERGED"), PR(FeatureY, "OPEN")}
\* the infra pull request of a preview that was closed
ClosedInfraPR == PR(<<"preview/">> \o BranchA, "CLOSED")
NoPRs == [n \in PRNums |-> NoPR]

\* lines of `git branch -r` as git prints them
BranchLine(ref) == <<" ", " ", "origin/">> \o ref
BranchLineUniverse ==
    {BranchLine(<<"main">>), BranchLine(<<"preview/">> \o BranchA),
     BranchLine(<<"preview/">> \o BranchB)}

\* tags of repos/dem2; the third one belongs to the preview "a-preview-b"
TagUniverse ==
    {PreviewTagOf(BranchA), PreviewTagOf(BranchB),
     PreviewTagOf(<<"a", "-", "preview-", "b">>)}

\* origin/feature/x is fetched in repos/dem2, origin/feature/y is not
FetchedRefs == {OriginRef(FeatureX)}

PatternIdentifiers ==
    {<<>>, <<"a">>, <<NL>>,
     <<"preview-">>, <<"preview-", "a">>, <<"preview-", "a", NL>>,
     <<"preview-", "a", NL, "b">>, <<"preview-", NL>>,
     <<"a", "preview-", "b">>, <<"preview-", "a", "-", "preview-", "b">>,
     <<"preview/">>, <<"preview/", "a">>, <<"preview/", "a", NL>>,
     <<"preview/", "a", NL, "b">>,
     <<"preview-", "pr-">>, <<"preview-", "pr-", "1">>,
     <<"preview-", "pr-", "0", "1">>, <<"preview-", "pr-", "2">>,
     <<"preview-", "pr-", "1", NL>>, <<"preview-", "pr-", "a">>,
     <<"preview-", "pr-", "1", "a">>,
     <<"1">>, <<"0", "1">>, <<"2">>, <<"1", NL>>, <<"1", "a">>,
     <<Superscript2>>, <<"preview-", "pr-", Superscript2>>,
     <<"tusdi-", "preview-", "1">>}

NamespaceIdentifiers ==
    {<<"tusdi-", "preview-", "1">>, <<"tusdi-", "preview-", "0", "1">>,
     <<"tusdi-", "preview-", "1", NL>>, <<"tusdi-", "preview-">>,
     <<"some-ns">>, <<>>}

BranchIdentifiers == {FeatureX, FeatureY}
\* numbers of the pull request the worlds of InitPr hold; the numbers of no
\* pull request and the malformed ones are in PatternIdentifiers
PrIdentifiers == {<<"1">>, <<"0", "1">>}

AppNames == {<<"preview-", "pr-", "1">>, <<"my-app">>}
AnnotationKeys ==
    {<<"ArgoCD", ".argoproj.io/", "app", "-name">>,
     <<"app", ".kubernetes.io/instance">>,
     <<"argocd", ".argoproj.io/sync-wave">>}
AnnotationItems ==
    {[key |-> k, value |-> v] : k \in AnnotationKeys, v \in AppNames \cup {<<>>}}
AnnotationWorlds ==
    {[ok |-> FALSE, items |-> <<>>], [ok |-> TRUE, items |-> <<>>]}
    \cup {[ok |-> TRUE, items |-> <<i>>] : i \in AnnotationItems}
AppWorlds(namespace) ==
    {[ok |-> FALSE, apps |-> <<>>], [ok |-> TRUE, apps |-> <<>>]}
    \cup {[ok |-> TRUE, apps |-> <<[name |-> n, namespace |-> ns]>>] :
            n \in AppNames, ns \in {namespace, <<"other-ns">>}}

NoAnnotations == [ok |-> TRUE, items |-> <<>>]
NoApps == [ok |-> TRUE, apps |-> <<>>]

\* The git refs a pull-request or branch resolution reads; git finds no ref
\* in a repository that is not checked out
GitWorld ==
    /\ checkouts \in SUBSET Repos
    /\ branchLines \in IF "dem2-infra" \in checkouts
                       THEN DistinctSeqs(BranchLineUniverse, MaxBranchLines)
                       ELSE {<<>>}
    /\ dem2Tags \in IF "dem2" \in checkouts
                    THEN DistinctSeqs(TagUniverse, MaxTags) ELSE {<<>>}
    /\ dem2RemoteRefs = IF "dem2" \in checkouts THEN FetchedRefs ELSE {}
    /\ ancestors \in SUBSET (Chars(dem2Tags) \X dem2RemoteRefs)

NoGitWorld ==
    /\ checkouts = Repos
    /\ branchLines = <<>>
    /\ dem2Tags = <<>>
    /\ dem2RemoteRefs = FetchedRefs
    /\ ancestors = {}

NoClusterWorld ==
    /\ nsAnnotations = NoAnnotations
    /\ argocdApps = NoApps

\* A strategy reads only a part of the world; the part it never reads is
\* held at one value.
InitPattern ==
    /\ id_type \in {"git-tag", "infra-branch", "argocd-app", "pr"}
    /\ identifier \in PatternIdentifiers
    /\ installed \in ToolSets({"which", "gh"})
    /\ \E p \in InfraPRValues \cup {ClosedInfraPR} :
          prs = [r \in Repos |->
                   IF r = "dem2-infra" THEN [NoPRs EXCEPT ![1] = p] ELSE NoPRs]
    /\ NoGitWorld
    /\ NoClusterWorld

InitPr ==
    /\ id_type = "pr"
    /\ identifier \in PrIdentifiers
    /\ installed \in OneMissing({"which", "gh", "git"})
    /\ \E p \in InfraPRValues, q \in Dem2PRValues :
          prs = [r \in Repos |->
                   IF r = "dem2-infra" THEN [NoPRs EXCEPT ![1] = p]
                   ELSE [NoPRs EXCEPT ![1] = q]]
    /\ GitWorld
    /\ NoClusterWorld

InitGitBranch ==
    /\ id_type = "git-branch"
    /\ identifier \in BranchIdentifiers
    /\ installed \in OneMissing({"which", "gh", "git"})
    /\ \E p \in Dem2PRValues, q \in {NoPR, PR(FeatureX, "OPEN")} :
          prs = [r \in Repos |->
                   IF r = "dem2-infra" THEN NoPRs
                   ELSE [NoPRs EXCEPT ![1] = p, ![2] = q]]
    /\ GitWorld
    /\ NoClusterWorld

InitGkeNamespace ==
    /\ id_type = "gke-namespace"
    /\ identifier \in NamespaceIdentifiers
    /\ installed \in ToolSets({"which", "gh", "kubectl", "argocd"})
    /\ \E p \in InfraPRValues :
          prs = [r \in Repos |->
                   IF r = "dem2-infra" THEN [NoPRs EXCEPT ![1] = p] ELSE NoPRs]
    /\ nsAnnotations \in AnnotationWorlds
    /\ argocdApps \in AppWorlds(identifier)
    /\ NoGitWorld

\* the caller has made no call yet
NoCall == [id_type |-> "", identifier |-> <<>>, status |-> "none",
           preview_id |-> <<>>]

\* The application repositories hold the tags of repos/dem2 and nothing
\* refuses a command; resolve is called directly, not from the command line.
NoWebuiWorld ==
    /\ webuiTags = {}
    /\ remoteTags = [r \in AppRepos |-> {}]
    /\ refused = {}

NoArgs == [o \in Chars(Options) |-> None]

NoCommandLine ==
    /\ command = ""
    /\ args = NoArgs
    /\ exit_code = -1
    /\ started = FALSE
    /\ op_calls = <<>>
    /\ removed_count = 0
    /\ skipped_count = 0

\* port_forward_service.py is not running
NoPortForward ==
    /\ services = <<>>
    /\ kubectl_rc = 0
    /\ config = {}
    /\ pf_pc = "off"
    /\ coroq = <<>>
    /\ tasks = {}
    /\ tq_pc = "none"
    /\ fwd = <<>>

\* what process_container_env starts from: nothing imported, empty caches
EmptyImport ==
    [env_vars |-> <<>>, errors |-> <<>>, warnings |-> <<>>,
     configmap_cache |-> <<>>, secret_cache |-> <<>>, fetches |-> <<>>,
     raised |-> FALSE]

\* import_k8s_environment.py is not running
NoImport ==
    /\ cluster = <<>>
    /\ container_spec = <<>>
    /\ imp_pc = "off"
    /\ env_from_left = <<>>
    /\ env_left = <<>>
    /\ imp = EmptyImport

Init ==
    /\ pc = "ready"
    /\ result = NoResult
    /\ calls = <<>>
    /\ prev = NoCall
    /\ (InitPattern \/ InitPr \/ InitGitBranch \/ InitGkeNamespace)
    /\ NoWebuiWorld
    /\ NoCommandLine
    /\ NoPortForward
    /\ NoImport

\* ------------------------------------------------------------------------
\* Actions: one call of PreviewEnvironment.resolve.  The caller makes the
\* call chosen in Init and may follow it with one more call in the same
\* world: the same request again, or the same application pull request
\* under its other name (its number, or its head branch).
\* ------------------------------------------------------------------------
\* the application pull request named by a PullRequest identifier
Dem2PRNamed(ident) ==
    IF IsDecimal(ident) /\ ParseInt(ident) \in PRNums
    THEN prs["dem2"][ParseInt(ident)] ELSE NoPR

\* identifiers of kind t the caller may ask for after the call just made
FollowUps(t) ==
    (IF id_type = t THEN {identifier} ELSE {})
    \cup (IF t = "pr" /\ id_type = "git-branch"
          THEN {FormatInt(n) : n \in
                   {m \in PRNums : /\ prs["dem2"][m].found
                                    /\ prs["dem2"][m].head_ref = identifier}}
          ELSE {})
    \cup (IF t = "git-branch" /\ id_type = "pr" /\ Dem2PRNamed(identifier).found
          THEN {Dem2PRNamed(identifier).head_ref}
          ELSE {})

\* the request of the call just made and its outcome
LastCall == [id_type |-> id_type, identifier |-> identifier,
             status |-> result.status, preview_id |-> result.preview_id]

\* What the commands of the tool that write do to the world; every other
\* command leaves it as it is.
\* git dropping a tag also when it is only probed with rev-parse
TagsAfter_Prune(c, tags) ==
    IF c.prog = "git" /\ c.op \in {"tag -d", "rev-parse"} /\ c.repo = "dem2"
    THEN SelectSeq(tags, LAMBDA t : t # c.arg) ELSE tags

\* `git -C repos/dem2 tag -d <tag>`
TagsAfter(c, tags) ==
    IF c.prog = "git" /\ c.op = "tag -d" /\ c.repo = "dem2" /\ c.op \notin refused
    THEN SelectSeq(tags, LAMBDA t : t # c.arg) ELSE tags

\* `git -C repos/dem2-webui tag -d <tag>`
WebuiTagsAfter(c, tags) ==
    IF c.prog = "git" /\ c.op = "tag -d" /\ c.repo = "dem2-webui" /\ c.op \notin refused
    THEN tags \ {c.arg} ELSE tags

\* `git -C repos/<repo> push origin :refs/tags/<tag>`
RemoteTagsAfter(c, rt) ==
    IF c.prog = "git" /\ c.op = "push" /\ c.repo \in DOMAIN rt /\ c.op \notin refused
    THEN [rt EXCEPT ![c.repo] = @ \ {c.arg}] ELSE rt

\* `gh pr close <n> --repo NumberOne-AI/<repo>`
PrsAfter(c, p) ==
    IF c.prog = "gh" /\ c.op = "pr close" /\ c.op \notin refused
    THEN [r \in DOMAIN p |->
            [n \in DOMAIN p[r] |->
                IF r = c.repo /\ FormatInt(n) = c.arg /\ p[r][n].found
                THEN [p[r][n] EXCEPT !.state = "CLOSED"] ELSE p[r][n]]]
    ELSE p

\* `argocd app delete <name> --yes`
AppsAfter(c, a) ==
    IF c.prog = "argocd" /\ c.op = "app delete"
    THEN [a EXCEPT !.apps = SelectSeq(@, LAMBDA app : app.name # c.arg)]
    ELSE a

\* the world after the commands cs were run in order
RECURSIVE TagsAfterAll(_, _)
TagsAfterAll(cs, tags) ==
    IF cs = <<>> THEN tags
    ELSE TagsAfterAll(Tail(cs), TagsAfter(Head(cs), tags))

RECURSIVE PrsAfterAll(_, _)
PrsAfterAll(cs, p) ==
    IF cs = <<>> THEN p ELSE PrsAfterAll(Tail(cs), PrsAfter(Head(cs), p))

RECURSIVE WebuiTagsAfterAll(_, _)
WebuiTagsAfterAll(cs, tags) ==
    IF cs = <<>> THEN tags
    ELSE WebuiTagsAfterAll(Tail(cs), WebuiTagsAfter(Head(cs), tags))

RECURSIVE RemoteTagsAfterAll(_, _)
RemoteTagsAfterAll(cs, rt) ==
    IF cs = <<>> THEN rt
    ELSE RemoteTagsAfterAll(Tail(cs), RemoteTagsAfter(Head(cs), rt))

RECURSIVE AppsAfterAll(_, _)
AppsAfterAll(cs, a) ==
    IF cs = <<>> THEN a ELSE AppsAfterAll(Tail(cs), AppsAfter(Head(cs), a))

\* subprocess.run of every command of the call, in order
RunCommands(cs) ==
    /\ dem2Tags' = TagsAfterAll(cs, dem2Tags)
    /\ ancestors' = {a \in ancestors : a[1] \in Chars(dem2Tags')}
    /\ prs' = PrsAfterAll(cs, prs)
    /\ argocdApps' = AppsAfterAll(cs, argocdApps)
    /\ webuiTags' = WebuiTagsAfterAll(cs, webuiTags)
    /\ remoteTags' = RemoteTagsAfterAll(cs, remoteTags)
    /\ UNCHANGED <<installed, checkouts, branchLines, dem2RemoteRefs,
                   nsAnnotations, refused>>

Return(r, t, ident) ==
    /\ result' = Outcome(r, t, ident)
    /\ calls' = r.calls
    /\ pc' = "done"
    /\ identifier' = ident
    /\ RunCommands(r.calls)
    /\ UNCHANGED <<cliVars, pfVars, importVars>>

\* resolve(t, ident) is called: the first call, or the call that follows it
Call(t) ==
    \/ /\ pc = "ready" /\ id_type = t
       /\ prev' = prev
       /\ LET r == ResolveResult(t, identifier) IN Return(r, t, identifier)
    \/ /\ pc = "done" /\ prev = NoCall
       /\ \E ident \in FollowUps(t) :
             /\ prev' = LastCall
             /\ LET r == ResolveResult(t, ident) IN Return(r, t, ident)

ResolveGitTag ==
    /\ id_type' = "git-tag"
    /\ Call("git-tag")

ResolveArgocdApp ==
    /\ id_type' = "argocd-app"
    /\ Call("argocd-app")

ResolveGkeNamespace ==
    /\ id_type' = "gke-namespace"
    /\ Call("gke-namespace")

ResolveInfraBranch ==
    /\ id_type' = "infra-branch"
    /\ Call("infra-branch")

ResolvePr ==
    /\ id_type' = "pr"
    /\ Call("pr")

ResolveGitBranch ==
    /\ id_type' = "git-branch"
    /\ Call("git-branch")

Next ==
    \/ ResolveGitTag
    \/ ResolveArgocdApp
    \/ ResolveGkeNamespace
    \/ ResolveInfraBranch
    \/ ResolvePr
    \/ ResolveGitBranch

Spec == Init /\ [][Next]_vars

\* ------------------------------------------------------------------------
\* Properties of resolve
\* ------------------------------------------------------------------------
Done(t) == pc = "done" /\ id_type = t

\* the part of s after a prefix of n tokens
Rest(s, n) == SubSeq(s, n + 1, Len(s))

\* identifier is prefix followed by a non-empty suffix
HasSuffix(prefix, s) == StartsWith(s, prefix) /\ Len(s) > Len(prefix)

\* identifier is prefix followed by one or more digits
HasNumber(prefix, s) == StartsWith(s, prefix) /\ IsDecimal(Rest(s, Len(prefix)))

NoExternalCall == calls = <<>>

\* pull request n as GitHub holds it
PullRequest(repo, n) == IF n \in PRNums THEN prs[repo][n] ELSE NoPR

\* pull request n of the infra repo has a head branch preview/<id>
InfraPreviewPR(n) ==
    /\ PullRequest("dem2-infra", n).found
    /\ HasSuffix(<<"preview/">>, PullRequest("dem2-infra", n).head_ref)

InfraPreviewId(n) == Tail(PullRequest("dem2-infra", n).head_ref)

\* `which gh` reports the GitHub CLI as present
GhAvailable == "which" \in installed /\ "gh" \in installed

\* C1: an identifier "preview-" + non-empty suffix of kind GitTag resolves to
\* exactly that suffix, and no external command is run.
C1_GitTagSuffix ==
    (Done("git-tag") /\ HasSuffix(<<"preview-">>, identifier))
        => /\ result.status = "ok"
           /\ result.preview_id = Rest(identifier, 1)
           /\ NoExternalCall

\* C2: an identifier "preview/" + non-empty suffix of kind InfraBranch
\* resolves to exactly that suffix, and no external command is run.
C2_InfraBranchSuffix ==
    (Done("infra-branch") /\ HasSuffix(<<"preview/">>, identifier))
        => /\ result.status = "ok"
           /\ result.preview_id = Rest(identifier, 1)
           /\ NoExternalCall

\* the pattern each kind requires, as the documentation words it
MatchesPattern(t, s) ==
    CASE t = "git-tag"      -> HasSuffix(<<"preview-">>, s)
      [] t = "infra-branch" -> HasSuffix(<<"preview/">>, s)
      [] t = "argocd-app"   -> HasNumber(<<"preview-", "pr-">>, s)
      [] t = "pr"           -> IsDecimal(s)
      [] OTHER              -> TRUE

\* C3: for GitTag, InfraBranch, ArgoApp and PullRequest an identifier that
\* does not match the pattern of its kind fails with ResolutionError, in
\* every external state.
C3_MalformedFails ==
    (pc = "done" /\ ~MatchesPattern(id_type, identifier))
        => result.status = "ResolutionError"

\* C4: resolving a GkeNamespace never fails, whatever the identifier and the
\* external state.
C4_GkeNeverFails ==
    Done("gke-namespace") => result.status = "ok"

\* C5: ArgoApp "preview-pr-<N>" with the GitHub CLI available resolves to
\* <id> exactly when infra pull request N is found with head branch
\* preview/<id>, and fails with ResolutionError otherwise.
C5_ArgoAppByInfraPR ==
    (Done("argocd-app") /\ HasNumber(<<"preview-", "pr-">>, identifier)
        /\ GhAvailable)
        => LET n == ParseInt(Rest(identifier, 2))
           IN  IF InfraPreviewPR(n)
               THEN /\ result.status = "ok"
                    /\ result.preview_id = InfraPreviewId(n)
               ELSE result.status = "ResolutionError"

C5_Witness ==
    /\ Done("argocd-app") /\ GhAvailable
    /\ identifier = <<"preview-", "pr-", "0", "1">>
    /\ InfraPreviewPR(1)
    /\ result.status = "ok" /\ result.preview_id = BranchA

\* a pull-request lookup or a git query
IsLookup(c) == c.prog \in {"gh", "git"}
NoLookup == \A i \in 1..Len(calls) : ~IsLookup(calls[i])

WellFormed(t, s) == t = "git-branch" \/ MatchesPattern(t, s)

\* C6: with the GitHub CLI not available, a well-formed ArgoApp, PullRequest
\* or GitBranch identifier fails with CommandNotFoundError before any
\* pull-request lookup or git query; a GkeNamespace resolution never fails
\* with CommandNotFoundError because gh is missing (only a missing `which`
\* makes it raise).
C6_GhMissingFailsFirst ==
    /\ (pc = "done" /\ "gh" \notin installed
          /\ id_type \in {"argocd-app", "pr", "git-branch"}
          /\ WellFormed(id_type, identifier))
        => (result.status = "CommandNotFoundError" /\ NoLookup)
    /\ (Done("gke-namespace") /\ result.status = "CommandNotFoundError")
        => "which" \notin installed

\* the branch has an open pull request that a lookup would have found
BranchHasOpenPR ==
    \E n \in PRNums : prs["dem2"][n] = PR(identifier, "OPEN")

C6_Witness ==
    /\ Done("git-branch") /\ "which" \in installed /\ "gh" \notin installed
    /\ BranchHasOpenPR
    /\ result.status = "CommandNotFoundError"
    /\ Len(calls) = 1 /\ calls[1].prog = "which"

\* ---- pull-request and branch resolution ----
ByAncestry == pc = "done" /\ id_type \in {"pr", "git-branch"}

ToolsAvailable == {"which", "gh", "git"} \subseteq installed

\* the application pull request the identifier designates is found
TargetKnown ==
    IF id_type = "pr"
    THEN IsDecimal(identifier) /\ PullRequest("dem2", ParseInt(identifier)).found
    ELSE \E n \in PRNums :
            /\ prs["dem2"][n].found /\ prs["dem2"][n].state = "OPEN"
            /\ prs["dem2"][n].head_ref = identifier

\* the application branch whose history is searched
TargetBranch ==
    IF id_type = "pr" THEN PullRequest("dem2", ParseInt(identifier)).head_ref
    ELSE identifier

\* the identifier is the number of an infra pull request of a preview branch
SettledByInfraPR ==
    id_type = "pr" /\ IsDecimal(identifier) /\ InfraPreviewPR(ParseInt(identifier))

ListingPrefix == <<" ", " ", "origin/", "preview/">>

\* line i of the branch listing is the remote branch preview/<id>
ListedId(i) == Rest(branchLines[i], Len(ListingPrefix))

\* tag is a tag of the application repo and an ancestor of the target branch
AncestorTag(tag) ==
    /\ tag \in Chars(dem2Tags)
    /\ <<tag, OriginRef(TargetBranch)>> \in ancestors

\* lines of the branch listing whose preview branch qualifies
Qualifying ==
    {i \in 1..Len(branchLines) :
        /\ HasSuffix(ListingPrefix, branchLines[i])
        /\ AncestorTag(<<"preview-">> \o ListedId(i))}

FirstOf(S) == CHOOSE i \in S : \A j \in S : i <= j

\* positions of the newest-first tag list holding an ancestor preview tag
QualifyingTags ==
    {i \in 1..Len(dem2Tags) :
        HasSuffix(<<"preview-">>, dem2Tags[i]) /\ AncestorTag(dem2Tags[i])}

TagListingConsulted == \E i \in 1..Len(calls) : calls[i].op = "tag -l"

ApplicationRepoConsulted ==
    \E i \in 1..Len(calls) : calls[i].prog = "git" \/ calls[i].repo = "dem2"

\* C7 as stated: whenever exactly one remote infra preview branch has its tag
\* in the application repo as an ancestor of the target branch, PullRequest
\* and GitBranch resolution return the id of that branch.
C7_Original ==
    (ByAncestry /\ ToolsAvailable /\ TargetKnown /\ Cardinality(Qualifying) = 1)
        => /\ result.status = "ok"
           /\ result.preview_id = ListedId(FirstOf(Qualifying))

\* C7 amended: the same, unless a PullRequest identifier is also the number
\* of an infra pull request with a preview/<id> head branch, which settles
\* the resolution before the ancestor search.
C7_UniqueBranchSelected ==
    (ByAncestry /\ ToolsAvailable /\ TargetKnown /\ ~SettledByInfraPR
        /\ Cardinality(Qualifying) = 1)
        => /\ result.status = "ok"
           /\ result.preview_id = ListedId(FirstOf(Qualifying))

C7_Witness ==
    /\ ByAncestry /\ ToolsAvailable /\ TargetKnown /\ ~SettledByInfraPR
    /\ Len(branchLines) = 2 /\ Qualifying = {2}
    /\ RevParseOk(<<"preview-">> \o ListedId(1))
    /\ result.status = "ok" /\ result.preview_id = ListedId(2)

\* C8: when the branch tier finds no qualifying branch and some preview-* tag
\* is an ancestor of the target branch, the result is the newest such tag
\* without its "preview-" prefix.
C8_NewestAncestorTag ==
    (ByAncestry /\ ToolsAvailable /\ TargetKnown /\ ~SettledByInfraPR
        /\ Qualifying = {} /\ QualifyingTags # {})
        => /\ result.status = "ok"
           /\ result.preview_id = Rest(dem2Tags[FirstOf(QualifyingTags)], 1)

\* C9: a numeric PullRequest identifier N, with the GitHub CLI available and
\* infra pull request N on a preview/<id> branch, resolves to <id> without
\* consulting the application repo.
C9_InfraPRFirst ==
    (Done("pr") /\ IsDecimal(identifier) /\ GhAvailable
        /\ InfraPreviewPR(ParseInt(identifier)))
        => /\ result.status = "ok"
           /\ result.preview_id = InfraPreviewId(ParseInt(identifier))
           /\ ~ApplicationRepoConsulted

C9_Witness ==
    /\ Done("pr") /\ identifier = <<"0", "1">> /\ GhAvailable
    /\ InfraPreviewPR(1) /\ PullRequest("dem2", 1).found
    /\ Qualifying # {}
    /\ result.status = "ok" /\ result.preview_id = InfraPreviewId(1)

\* C10 as stated: whenever some remote infra preview branch qualifies, the
\* result is the first qualifying branch of the listing and the tag list is
\* not consulted.
C10_Original ==
    (ByAncestry /\ ToolsAvailable /\ TargetKnown /\ Qualifying # {})
        => /\ result.status = "ok"
           /\ result.preview_id = ListedId(FirstOf(Qualifying))
           /\ ~TagListingConsulted

\* C10 amended: the same, unless a PullRequest identifier is also the number
\* of an infra pull request with a preview/<id> head branch.
C10_FirstListedBranchWins ==
    (ByAncestry /\ ToolsAvailable /\ TargetKnown /\ ~SettledByInfraPR
        /\ Qualifying # {})
        => /\ result.status = "ok"
           /\ result.preview_id = ListedId(FirstOf(Qualifying))
           /\ ~TagListingConsulted

\* two branches qualify and the tag of the second one is the newest
C10_Witness ==
    /\ ByAncestry /\ ToolsAvailable /\ TargetKnown /\ ~SettledByInfraPR
    /\ Qualifying = {1, 2}
    /\ dem2Tags[1] = <<"preview-">> \o ListedId(2)
    /\ result.status = "ok" /\ result.preview_id = ListedId(1)

\* ---- failures of pull-request and branch resolution ----
\* no remote infra preview branch and no preview tag qualifies
NoAncestorTag == Qualifying = {} /\ QualifyingTags = {}

\* some pull request of the application repo has the identifier as head
BranchHasPR ==
    \E n \in PRNums :
        prs["dem2"][n].found /\ prs["dem2"][n].head_ref = identifier

\* a git command was run
AncestorSearchMade == \E i \in 1..Len(calls) : calls[i].prog = "git"

\* the number is the number of no pull request of either repo
FoundInNeitherRepo(n) ==
    ~PullRequest("dem2-infra", n).found /\ ~PullRequest("dem2", n).found

\* C11 as stated: PullRequest fails with ResolutionError when the pull
\* request is in neither repo or when the ancestor search finds no tag;
\* GitBranch fails with ResolutionError when no application pull request has
\* the branch as head (no ancestor search is made) or when the ancestor
\* search finds no tag.
C11_Original ==
    /\ (Done("pr") /\ IsDecimal(identifier)
          /\ FoundInNeitherRepo(ParseInt(identifier)))
        => result.status = "ResolutionError"
    /\ (ByAncestry /\ TargetKnown /\ ~SettledByInfraPR /\ NoAncestorTag)
        => result.status = "ResolutionError"
    /\ (Done("git-branch") /\ ~BranchHasPR)
        => (result.status = "ResolutionError" /\ ~AncestorSearchMade)

\* C11 amended: the same with the commands the resolution runs on PATH
\* (which and gh for the pull-request lookups, git as well for the ancestor
\* search); a missing command ends the call with CommandNotFoundError.
C11_FailsWithResolutionError ==
    /\ (Done("pr") /\ GhAvailable /\ IsDecimal(identifier)
          /\ FoundInNeitherRepo(ParseInt(identifier)))
        => result.status = "ResolutionError"
    /\ (ByAncestry /\ ToolsAvailable /\ TargetKnown /\ ~SettledByInfraPR
          /\ NoAncestorTag)
        => result.status = "ResolutionError"
    /\ (Done("git-branch") /\ GhAvailable /\ ~BranchHasPR)
        => (result.status = "ResolutionError" /\ ~AncestorSearchMade)

\* the application pull request is found, preview tags exist and a preview
\* branch has its tag, but no tag is an ancestor of the target branch
C11_Witness ==
    /\ Done("pr") /\ ToolsAvailable /\ TargetKnown /\ ~SettledByInfraPR
    /\ NoAncestorTag
    /\ Len(dem2Tags) = 2
    /\ \E i \in 1..Len(branchLines) :
          /\ HasSuffix(ListingPrefix, branchLines[i])
          /\ RevParseOk(<<"preview-">> \o ListedId(i))
    /\ result.status = "ResolutionError"
    /\ TagListingConsulted

\* ---- namespace resolution ----
PreviewNamespacePrefix == <<"tusdi-", "preview-">>

\* the identifier is tusdi-preview-<N>
IsPreviewNamespace(s) == HasNumber(PreviewNamespacePrefix, s)

\* <N> as it is written in the namespace name, and the number it denotes
NamespaceDigits(s) == Rest(s, Len(PreviewNamespacePrefix))
NamespaceNumber(s) == ParseInt(NamespaceDigits(s))

\* a command that reads the namespace annotations (kubectl and its check)
IsAnnotationQuery(c) ==
    c.prog = "kubectl" \/ (c.prog = "which" /\ c.arg = <<"kubectl">>)

\* a command that reads the ArgoCD application list (argocd and its check)
IsAppListQuery(c) ==
    c.prog = "argocd" \/ (c.prog = "which" /\ c.arg = <<"argocd">>)

AnnotationsQueried == \E i \in 1..Len(calls) : IsAnnotationQuery(calls[i])
AppListQueried == \E i \in 1..Len(calls) : IsAppListQuery(calls[i])

\* C12: GkeNamespace "tusdi-preview-<N>" with the GitHub CLI available and
\* infra pull request N on head branch preview/<id> resolves to <id>, and
\* neither the namespace annotations nor the ArgoCD application list are
\* queried.
C12_PreviewNamespaceByInfraPR ==
    (Done("gke-namespace") /\ IsPreviewNamespace(identifier) /\ GhAvailable
        /\ InfraPreviewPR(NamespaceNumber(identifier)))
        => /\ result.status = "ok"
           /\ result.preview_id = InfraPreviewId(NamespaceNumber(identifier))
           /\ ~AnnotationsQueried
           /\ ~AppListQueried

\* the annotations and the application list both name another application
C12_Witness ==
    /\ Done("gke-namespace") /\ AllTools \subseteq installed
    /\ identifier = <<"tusdi-", "preview-", "1">>
    /\ InfraPreviewPR(1)
    /\ nsAnnotations.ok /\ nsAnnotations.items # <<>>
    /\ FirstAppAnnotation(nsAnnotations.items) = <<"my-app">>
    /\ argocdApps.ok /\ argocdApps.apps # <<>>
    /\ result.status = "ok" /\ result.preview_id = InfraPreviewId(1)

\* the lookup of infra pull request n gives nothing: the GitHub CLI is not
\* found or the pull request does not exist
InfraLookupFails(n) == "gh" \notin installed \/ ~PullRequest("dem2-infra", n).found

\* C13: GkeNamespace "tusdi-preview-<N>" whose infra pull request lookup
\* fails resolves to <N>, the digit string exactly as the namespace name
\* writes it (checked with `which` on PATH).
C13_FallbackToDigits ==
    (Done("gke-namespace") /\ IsPreviewNamespace(identifier)
        /\ "which" \in installed
        /\ InfraLookupFails(NamespaceNumber(identifier)))
        => /\ result.status = "ok"
           /\ result.preview_id = NamespaceDigits(identifier)

\* the ArgoCD application reference the annotations of the namespace yield
\* (<<>> for none: kubectl missing, namespace unreadable, no such annotation)
AnnotationReference ==
    IF "kubectl" \in installed /\ nsAnnotations.ok
    THEN FirstAppAnnotation(nsAnnotations.items) ELSE <<>>

\* C14: for a GkeNamespace identifier that is not "tusdi-preview-<N>" the
\* first thing resolve does is to inspect the annotations of the namespace,
\* and the ArgoCD application list is scanned only if the annotations yield
\* no application reference.
C14_AnnotationsBeforeAppList ==
    (Done("gke-namespace") /\ ~IsPreviewNamespace(identifier))
        => /\ calls # <<>> /\ IsAnnotationQuery(calls[1])
           /\ AppListQueried => AnnotationReference = <<>>
           /\ \A i, j \in 1..Len(calls) :
                 (IsAnnotationQuery(calls[i]) /\ IsAppListQuery(calls[j])) => i < j

\* the first listed ArgoCD application whose deployment target is the
\* namespace (<<>> for none: argocd missing, listing failed, no such app)
AppListReference ==
    IF "argocd" \in installed /\ argocdApps.ok
    THEN FirstAppDeployingTo(argocdApps.apps, identifier) ELSE <<>>

\* the application found for the namespace, by annotation or by list scan
FoundApp ==
    IF AnnotationReference # <<>> THEN AnnotationReference ELSE AppListReference

AppPrefix == <<"preview-", "pr-">>
AppNumber(a) == ParseInt(Rest(a, Len(AppPrefix)))

\* C15: for a GkeNamespace identifier that is not "tusdi-preview-<N>" and an
\* ArgoCD application A found for it: when A is "preview-pr-<N>" and infra
\* pull request N has head branch preview/<id> the result is <id>; when A is
\* not "preview-pr-<N>" the result is A verbatim (checked with the GitHub
\* CLI available).
C15_ResolveViaFoundApp ==
    (Done("gke-namespace") /\ ~IsPreviewNamespace(identifier)
        /\ GhAvailable /\ FoundApp # <<>>)
        => IF HasNumber(AppPrefix, FoundApp)
           THEN InfraPreviewPR(AppNumber(FoundApp))
                   => /\ result.status = "ok"
                      /\ result.preview_id = InfraPreviewId(AppNumber(FoundApp))
           ELSE /\ result.status = "ok"
                /\ result.preview_id = FoundApp

\* no annotation of the namespace refers to an ArgoCD application and no
\* listed application deploys to the namespace
NoAppForNamespace ==
    /\ FirstAppAnnotation(nsAnnotations.items) = <<>>
    /\ FirstAppDeployingTo(argocdApps.apps, identifier) = <<>>

\* C16: a GkeNamespace identifier that is not "tusdi-preview-<N>", with no
\* application reference in its annotations and no listed application
\* deploying to it, resolves to the identifier itself (checked with `which`
\* on PATH).
C16_IdentityFallback ==
    (Done("gke-namespace") /\ ~IsPreviewNamespace(identifier)
        /\ "which" \in installed /\ NoAppForNamespace)
        => /\ result.status = "ok"
           /\ result.preview_id = identifier

\* ---- two calls in one world ----
\* the call before the last one and the last one had the same outcome
SameOutcome ==
    prev.status = result.status /\ prev.preview_id = result.preview_id

\* a call of kind PullRequest with number n and a call of kind GitBranch
\* with branch b, where b is the head branch of application pull request n
\* and n is not an infra pull request of a preview branch
SamePullRequest(number, branch) ==
    /\ IsDecimal(number)
    /\ PullRequest("dem2", ParseInt(number)).found
    /\ PullRequest("dem2", ParseInt(number)).head_ref = branch
    /\ ~InfraPreviewPR(ParseInt(number))

\* C17: in one external state, resolve(GitBranch, B) and resolve(PullRequest,
\* N) have the same outcome when B is the head branch of application pull
\* request N and N is not an infra pull request with a preview/ head branch.
C17_BranchAndPrAgree ==
    /\ (pc = "done" /\ prev.id_type = "git-branch" /\ id_type = "pr"
          /\ SamePullRequest(identifier, prev.identifier)) => SameOutcome
    /\ (pc = "done" /\ prev.id_type = "pr" /\ id_type = "git-branch"
          /\ SamePullRequest(prev.identifier, identifier)) => SameOutcome

\* C18: resolve is read-only: whatever the kind and the identifier, and
\* whether the call succeeds or fails, tags, branches, pull requests,
\* namespaces and ArgoCD applications (and PATH and the checkouts) are after
\* a call what they were before it.
C18_ReadOnly == [][extVars' = extVars]_vars

\* a successful call that ran gh and several git commands
C18_Witness ==
    /\ pc = "done" /\ result.status = "ok"
    /\ \E i \in 1..Len(calls) : calls[i].op = "pr view"
    /\ \E i \in 1..Len(calls) : calls[i].op = "rev-parse"
    /\ \E i \in 1..Len(calls) : calls[i].op = "merge-base --is-ancestor"
    /\ TagListingConsulted

\* the last call repeated the request of the call before it
SameRequestTwice ==
    /\ pc = "done" /\ prev # NoCall
    /\ prev.id_type = id_type /\ prev.identifier = identifier

ReturnedPreview ==
    /\ result.status = "ok"
    /\ result.id_type = id_type
    /\ result.original_identifier = identifier

\* the call raised exc and returned nothing
RaisedOnly(exc) ==
    /\ result.status = exc
    /\ result.preview_id = <<>>
    /\ result.id_type = ""

\* C20: every call of resolve ends in exactly one of three outcomes: one
\* PreviewEnvironment, a ResolutionError or a CommandNotFoundError; there is
\* no other kind of error and no partial result.
C20_ThreeOutcomes ==
    pc = "done"
        => \/ ReturnedPreview
           \/ RaisedOnly("ResolutionError")
           \/ RaisedOnly("CommandNotFoundError")

\* ---- failed external calls ----
\* the command c of the call log exited with a code other than 0: a pull
\* request lookup that found nothing, a probe of a tag or ref that is not
\* there, `which` for a command that is not on PATH
CallFailed(c) ==
    CASE c.op = "pr view" -> ~PullRequest(c.repo, ParseInt(c.arg)).found
      [] c.op = "pr list" -> GhPrListFirst(c.repo, c.arg) = 0
      [] c.op = "rev-parse" -> ~RevParseOk(c.arg)
      [] c.op = "rev-parse --verify" -> ~RevParseVerifyOk(c.arg)
      [] c.prog = "which" -> Head(c.arg) \notin installed
      [] OTHER -> FALSE

SomeCallFailed == \E i \in 1..Len(calls) : CallFailed(calls[i])

\* C21: for ArgoApp, PullRequest and GitBranch a single failed external call
\* (a pull request lookup, a listing, a tag existence check) fails the whole
\* resolution: no call that saw a command fail returns a preview.
C21_FailedCallFailsResolution ==
    (pc = "done" /\ id_type \in {"argocd-app", "pr", "git-branch"}
        /\ SomeCallFailed)
        => result.status # "ok"


\* ------------------------------------------------------------------------
\* The operations of a resolved preview: get_argocd_app_name, show_info,
\* delete
\* ------------------------------------------------------------------------
GitCmd(op, repo, arg) == Cmd("git", op, repo, arg, <<>>)

\* `git -C repos/<repo> rev-parse <tag>` exits 0, for an application repo
TagExists(repo, tag) ==
    IF repo = "dem2" THEN RevParseOk(tag) ELSE tag \in webuiTags

\* `gh pr list --head branch` over the pull requests p: the open ones
OpenPRsIn(p, repo, branch) ==
    {n \in DOMAIN p[repo] :
        /\ p[repo][n].found
        /\ p[repo][n].state = "OPEN"
        /\ p[repo][n].head_ref = branch}

\* get_infra_pr_number(preview_id) when the pull requests are p; value 0
\* stands for None
GetInfraPrNumberIn(p, preview_id) ==
    LET a == CheckCommandAvailable("gh")
        branch == <<"preview/">> \o preview_id
        open == OpenPRsIn(p, "dem2-infra", branch)
        list == <<Cmd("gh", "pr list", "dem2-infra", branch, <<>>)>>
    IN  IF a.raised
        THEN [raised |-> TRUE, value |-> 0, calls |-> a.calls]
        ELSE IF ~a.value
        THEN [raised |-> FALSE, value |-> 0, calls |-> a.calls]
        ELSE [raised |-> FALSE,
              value |-> IF open = {} THEN 0
                        ELSE CHOOSE n \in open : \A m \in open : m <= n,
              calls |-> a.calls \o list]

\* PreviewEnvironment.get_argocd_app_name when the pull requests are p
GetArgocdAppNameIn(p, preview_id) ==
    LET infra_pr_num == GetInfraPrNumberIn(p, preview_id)
    IN  IF infra_pr_num.value # 0
        THEN [raised |-> infra_pr_num.raised,
              name |-> <<"preview-", "pr-">> \o FormatInt(infra_pr_num.value),
              number |-> infra_pr_num.value, calls |-> infra_pr_num.calls]
        ELSE [raised |-> infra_pr_num.raised,
              name |-> <<"preview-">> \o preview_id,
              number |-> 0, calls |-> infra_pr_num.calls]

\* PreviewEnvironment.get_argocd_app_name
GetArgocdAppName(preview_id) == GetArgocdAppNameIn(prs, preview_id)

\* check_git_tag(repo_path, tag): the commands it runs
CheckGitTagCalls(repo, tag) ==
    IF repo \notin checkouts THEN <<>>
    ELSE <<GitCmd("rev-parse", repo, tag)>>
         \o (IF TagExists(repo, tag) THEN <<GitCmd("log", repo, tag)>> ELSE <<>>)

\* check_git_branch(INFRA_REPO, branch): the commands it runs; the checkout
\* of the model holds no local branch, so that both probes are made
CheckGitBranchCalls(branch) ==
    IF "dem2-infra" \notin checkouts THEN <<>>
    ELSE <<Cmd("git", "show-ref", "dem2-infra", <<"refs/heads/">> \o branch, <<>>),
           Cmd("git", "show-ref", "dem2-infra",
               <<"refs/remotes/origin/">> \o branch, <<>>)>>

\* a command run only if check_command_available(cmd)
IfAvailable(cmd, c) ==
    CheckCommandAvailable(cmd).calls
        \o (IF CheckCommandAvailable(cmd).value THEN <<c>> ELSE <<>>)

\* PreviewEnvironment._collect_repo_info: the commands it runs
CollectRepoInfoCalls(repo, preview_id) ==
    LET pr_match == ReMatchDigits(<<"pr-">>, preview_id)
        pr_number == IF pr_match.matched THEN ParseInt(pr_match.group) ELSE 0
    IN  CheckGitTagCalls(repo, PreviewTagOf(preview_id))
        \o (IF pr_number # 0
            THEN IfAvailable("gh", Cmd("gh", "pr view", repo,
                                       FormatInt(pr_number), <<>>))
            ELSE <<>>)

\* PreviewEnvironment.collect_info: the commands it runs when none raises
CollectInfoCalls(preview_id) ==
    LET tag == PreviewTagOf(preview_id)
        branch == <<"preview/">> \o preview_id
        app == GetArgocdAppName(preview_id)
    IN  CollectRepoInfoCalls("dem2", preview_id)
        \o CollectRepoInfoCalls("dem2-webui", preview_id)
        \o CheckGitBranchCalls(branch)
        \o IfAvailable("gh", Cmd("gh", "pr list", "dem2-infra", branch, <<>>))
        \o app.calls
        \o IfAvailable("argocd", Cmd("argocd", "app get", "", app.name, <<>>))
        \o CheckGitTagCalls("dem2", tag)
        \o CheckGitTagCalls("dem2-webui", tag)
        \o CheckGitBranchCalls(branch)

\* run_command raises at the first command whose program is not on PATH
RECURSIVE UntilRaise(_)
UntilRaise(cs) ==
    IF cs = <<>> THEN <<>>
    ELSE IF RunRaises(Head(cs).prog) THEN <<Head(cs)>>
    ELSE <<Head(cs)>> \o UntilRaise(Tail(cs))

\* what an operation did: the commands it ran, whether an exception left
\* it, and the counters of delete
Did(raised, cs, removed, skipped) ==
    [started |-> TRUE, raised |-> raised, calls |-> cs,
     removed |-> removed, skipped |-> skipped]
NotStarted ==
    [started |-> FALSE, raised |-> FALSE, calls |-> <<>>,
     removed |-> 0, skipped |-> 0]

\* PreviewEnvironment.show_info: collect_info, then printing
ShowInfo(preview_id) ==
    LET all == CollectInfoCalls(preview_id)
    IN  Did(\E i \in 1..Len(all) : RunRaises(all[i].prog), UntilRaise(all), 0, 0)

\* close_pr(repo, pr_number, comment)
ClosePr(repo, pr_number) ==
    LET a == CheckCommandAvailable("gh")
        close == <<Cmd("gh", "pr close", repo, FormatInt(pr_number), <<>>)>>
    IN  IF a.raised
        THEN [raised |-> TRUE, value |-> FALSE, calls |-> a.calls]
        ELSE IF ~a.value
        THEN [raised |-> FALSE, value |-> FALSE, calls |-> a.calls]
        ELSE [raised |-> FALSE, value |-> "pr close" \notin refused,
              calls |-> a.calls \o close]

\* delete: closing the pull request of dem2-infra
DeletePrStep(preview_id) ==
    LET a == CheckCommandAvailable("gh")
        pr_num == GetPrByBranch("dem2-infra", <<"preview/">> \o preview_id)
        closed == ClosePr("dem2-infra", pr_num.value)
    IN  IF a.raised \/ ~a.value
        THEN [raised |-> a.raised, calls |-> a.calls]
        ELSE IF pr_num.raised \/ pr_num.value = 0
        THEN [raised |-> pr_num.raised, calls |-> a.calls \o pr_num.calls]
        ELSE [raised |-> closed.raised,
              calls |-> a.calls \o pr_num.calls \o closed.calls]

\* the loop body pushing the deletion to origin before deleting locally,
\* and also when the tag is not there
DeleteRepoStep_PushFirst(repo, preview_id) ==
    LET tag == PreviewTagOf(preview_id)
        probe == <<GitCmd("rev-parse", repo, tag)>>
    IN  IF repo \notin checkouts
        THEN [raised |-> FALSE, calls |-> <<>>, removed |-> 0, skipped |-> 1]
        ELSE IF RunRaises("git")
        THEN [raised |-> TRUE, calls |-> probe, removed |-> 0, skipped |-> 0]
        ELSE [raised |-> FALSE,
              calls |-> probe \o <<GitCmd("push", repo, tag),
                                   GitCmd("tag -d", repo, tag)>>,
              removed |-> 1, skipped |-> 0]

\* delete: one turn of the loop over the application repositories
DeleteRepoStep(repo, preview_id) ==
    LET tag == PreviewTagOf(preview_id)
        probe == <<GitCmd("rev-parse", repo, tag)>>
    IN  IF repo \notin checkouts
        THEN [raised |-> FALSE, calls |-> <<>>, removed |-> 0, skipped |-> 1]
        ELSE IF RunRaises("git")
        THEN [raised |-> TRUE, calls |-> probe, removed |-> 0, skipped |-> 0]
        ELSE IF TagExists(repo, tag)
        THEN [raised |-> FALSE,
              calls |-> probe \o <<GitCmd("tag -d", repo, tag),
                                   GitCmd("push", repo, tag)>>,
              removed |-> 1, skipped |-> 0]
        ELSE [raised |-> FALSE, calls |-> probe, removed |-> 0, skipped |-> 1]

\* PreviewEnvironment.delete
Delete(preview_id) ==
    LET pr == DeletePrStep(preview_id)
        dem2 == DeleteRepoStep("dem2", preview_id)
        webui == DeleteRepoStep("dem2-webui", preview_id)
        summary == GetArgocdAppNameIn(PrsAfterAll(pr.calls, prs), preview_id)
    IN  IF pr.raised THEN Did(TRUE, pr.calls, 0, 0)
        ELSE IF dem2.raised
        THEN Did(TRUE, pr.calls \o dem2.calls, dem2.removed, dem2.skipped)
        ELSE IF webui.raised
        THEN Did(TRUE, pr.calls \o dem2.calls \o webui.calls,
                 dem2.removed + webui.removed, dem2.skipped + webui.skipped)
        ELSE Did(summary.raised,
                 pr.calls \o dem2.calls \o webui.calls \o summary.calls,
                 dem2.removed + webui.removed, dem2.skipped + webui.skipped)

\* ------------------------------------------------------------------------
\* The command line: cmd_info and cmd_delete
\* ------------------------------------------------------------------------
\* bool(args.<option>): None and the empty string are false
Truthy(a) == a.given /\ a.value # <<>>

OptionType(o) ==
    CASE o = "git_tag"       -> "git-tag"
      [] o = "argocd_app"    -> "argocd-app"
      [] o = "gke_namespace" -> "gke-namespace"
      [] o = "infra_branch"  -> "infra-branch"
      [] o = "pr"            -> "pr"
      [] o = "git_branch"    -> "git-branch"

\* the if/elif chain of _parse_identifier_args from its i-th test on
RECURSIVE ParseFrom(_, _)
ParseFrom(a, i) ==
    IF i > Len(Options)
    THEN [usage |-> TRUE, id_type |-> "", identifier |-> <<>>]
    ELSE IF Truthy(a[Options[i]])
    THEN [usage |-> FALSE, id_type |-> OptionType(Options[i]),
          identifier |-> a[Options[i]].value]
    ELSE ParseFrom(a, i + 1)

\* _parse_identifier_args(args); usage stands for the message and sys.exit(1)
ParseIdentifierArgs(a) == ParseFrom(a, 1)

\* the operation called whether resolve returned or raised
Operation_Always(cmd, r) ==
    IF cmd = "info" THEN ShowInfo(r.preview_id) ELSE Delete(r.preview_id)

\* the try block of cmd_info and cmd_delete after resolve returned or raised
Operation(cmd, r) ==
    IF r.status # "ok" THEN NotStarted
    ELSE IF cmd = "info" THEN ShowInfo(r.preview_id)
    ELSE Delete(r.preview_id)

\* the exit status: sys.exit(1) in the except clause, 1 as well for the
\* traceback of an exception the clause does not catch, 0 otherwise
ExitCode(r, op) == IF r.status # "ok" \/ op.raised THEN 1 ELSE 0

\* cmd_info(args) or cmd_delete(args), from the command line to the exit
Run(cmd) ==
    /\ pc = "ready"
    /\ pc' = "done"
    /\ UNCHANGED <<command, args, prev, pfVars, importVars>>
    /\ LET parsed == ParseIdentifierArgs(args)
           r == ResolveResult(parsed.id_type, parsed.identifier)
           op == Operation(cmd, r)
       IN  IF parsed.usage
           THEN /\ exit_code' = 1
                /\ id_type' = ""
                /\ identifier' = <<>>
                /\ result' = NoResult
                /\ calls' = <<>>
                /\ started' = FALSE
                /\ op_calls' = <<>>
                /\ removed_count' = 0
                /\ skipped_count' = 0
                /\ RunCommands(<<>>)
           ELSE /\ exit_code' = ExitCode(r, op)
                /\ id_type' = parsed.id_type
                /\ identifier' = parsed.identifier
                /\ result' = Outcome(r, parsed.id_type, parsed.identifier)
                /\ calls' = r.calls
                /\ started' = op.started
                /\ op_calls' = op.calls
                /\ removed_count' = op.removed
                /\ skipped_count' = op.skipped
                /\ RunCommands(r.calls \o op.calls)

CmdInfo ==
    /\ command = "info"
    /\ Run("info")

CmdDelete ==
    /\ command = "delete"
    /\ Run("delete")

\* The command lines and the worlds of the command-line model
PreviewA == PreviewTagOf(BranchA)

OptionValues(o) ==
    CASE o = "git_tag"       -> {<<>>, PreviewA, BranchA}
      [] o = "argocd_app"    -> {<<"preview-", "pr-", "1">>}
      [] o = "gke_namespace" -> {<<"tusdi-", "preview-", "1">>}
      [] o = "infra_branch"  -> {<<"preview/">> \o BranchA}
      [] o = "pr"            -> {<<"1">>, <<Superscript2>>}
      [] o = "git_branch"    -> {FeatureX}

Only(o, v) == [NoArgs EXCEPT ![o] = Given(v)]

\* no identifier option, one of them, or two of them
CommandLines ==
    {NoArgs}
    \cup {Only(o, v) : <<o, v>> \in
            UNION {{o} \X OptionValues(o) : o \in Chars(Options)}}
    \cup {[Only("git_tag", PreviewA) EXCEPT !["pr"] = Given(<<"1">>)],
          [Only("git_tag", <<>>) EXCEPT !["pr"] = Given(<<"1">>)],
          [Only("pr", <<"1">>) EXCEPT !["git_branch"] = Given(FeatureX)]}

InitCli ==
    /\ command \in {"info", "delete"}
    /\ args \in CommandLines
    /\ installed \in OneMissing({"which", "gh", "git"})
    /\ \E p \in {NoPR, PR(<<"preview/">> \o BranchA, "OPEN")} :
          prs = [r \in Repos |->
                   IF r = "dem2-infra" THEN [NoPRs EXCEPT ![1] = p] ELSE NoPRs]
    /\ \E apps \in SUBSET AppRepos : checkouts = apps \cup {"dem2-infra"}
    /\ branchLines = <<>>
    /\ dem2Tags \in IF "dem2" \in checkouts THEN {<<>>, <<PreviewA>>} ELSE {<<>>}
    /\ dem2RemoteRefs = IF "dem2" \in checkouts THEN FetchedRefs ELSE {}
    /\ ancestors = {}
    /\ webuiTags \in IF "dem2-webui" \in checkouts THEN {{}, {PreviewA}} ELSE {{}}
    /\ \E t \in {{}, {PreviewA}} : remoteTags = [r \in AppRepos |-> t]
    /\ refused \in {{}, {"pr close"}, {"tag -d"}, {"push"}}
    /\ NoClusterWorld
    /\ id_type = ""
    /\ identifier = <<>>
    /\ pc = "ready"
    /\ result = NoResult
    /\ calls = <<>>
    /\ prev = NoCall
    /\ exit_code = -1
    /\ started = FALSE
    /\ op_calls = <<>>
    /\ removed_count = 0
    /\ skipped_count = 0
    /\ NoPortForward
    /\ NoImport

NextCli ==
    \/ CmdInfo
    \/ CmdDelete

SpecCli == InitCli /\ [][NextCli]_vars

\* ------------------------------------------------------------------------
\* Properties of the command line
\* ------------------------------------------------------------------------
Exited == pc = "done" /\ command # ""

\* the identifier options given on the command line
GivenOptions == {o \in Chars(Options) : args[o].given}

\* nothing was resolved and no operation was started
NothingDone ==
    /\ result = NoResult
    /\ calls = <<>>
    /\ ~started
    /\ op_calls = <<>>

\* C22: info and delete require exactly one identifier option; giving none,
\* or two or more, ends with exit code 1 and nothing resolved or deleted.
C22_ExactlyOneIdentifier ==
    (Exited /\ Cardinality(GivenOptions) # 1)
        => (exit_code = 1 /\ NothingDone)

ResolutionFailed == result.status \in {"ResolutionError", "CommandNotFoundError"}

\* C23: when resolve raises ResolutionError or CommandNotFoundError, info
\* and delete exit with code 1 and the operation is never started: no
\* command of it is run, no pull request is closed and no tag is deleted,
\* locally or on the remote.
C23_FailedResolutionStartsNothing ==
    [][(command # "" /\ ResolutionFailed')
          => /\ exit_code' = 1
             /\ ~started'
             /\ op_calls' = <<>>
             /\ extVars' = extVars]_vars

\* delete exited after a failed resolution with a pull request to close and
\* tags to delete still there
C23_Witness ==
    /\ Exited
    /\ command = "delete"
    /\ ResolutionFailed
    /\ exit_code = 1
    /\ OpenPRsIn(prs, "dem2-infra", <<"preview/">> \o BranchA) # {}
    /\ TagExists("dem2", PreviewA)
    /\ TagExists("dem2-webui", PreviewA)
    /\ PreviewA \in remoteTags["dem2"]

SelectedTag == dem2Tags[FirstOf(QualifyingTags)]

\* C25: when the tag fallback of a PullRequest or GitBranch resolution
\* selects the tag T, the preview id returned is the one resolve(GitTag, T)
\* returns, also for a tag name holding 'preview-' more than once.
C25_TagFallbackAgreesWithGitTag ==
    (ByAncestry /\ ToolsAvailable /\ TargetKnown /\ ~SettledByInfraPR
        /\ Qualifying = {} /\ QualifyingTags # {})
        => /\ result.status = "ok"
           /\ ResolveGitTagResult(SelectedTag).status = "ok"
           /\ result.preview_id = ResolveGitTagResult(SelectedTag).preview_id

\* ------------------------------------------------------------------------
\* Properties of delete
\* ------------------------------------------------------------------------
IsPrClose(c) == c.prog = "gh" /\ c.op = "pr close"
IsTagDeletion(c) == c.prog = "git" /\ c.op \in {"tag -d", "push"}

\* positions of the log cs where delete probes the preview tag of repo
Probes(cs, repo) ==
    {i \in 1..Len(cs) : cs[i].prog = "git" /\ cs[i].op = "rev-parse"
                        /\ cs[i].repo = repo}

\* the log cs starts with the pull-request step and no pull request is
\* closed after a tag deletion
PrStepFirst(cs) ==
    /\ cs # <<>>
    /\ Head(cs) = Cmd("which", "", "", <<"gh">>, <<>>)
    /\ \A i, j \in 1..Len(cs) : (IsPrClose(cs[i]) /\ IsTagDeletion(cs[j])) => i < j

\* both application repositories were processed, dem2 first: a repository
\* that is checked out has its tag probed
BothProcessed(cs) ==
    /\ \A repo \in AppRepos : repo \in checkouts => Probes(cs, repo) # {}
    /\ \A i \in Probes(cs, "dem2"), j \in Probes(cs, "dem2-webui") : i < j

\* every deletion on origin in the log cs comes right after the local
\* deletion of the same tag, which is tag and was found by the probe
PushAfterLocal(cs, tag) ==
    \A i \in 1..Len(cs) :
        (cs[i].prog = "git" /\ cs[i].op = "push")
            => /\ i > 2
               /\ cs[i].arg = tag
               /\ cs[i - 1] = GitCmd("tag -d", cs[i].repo, tag)
               /\ cs[i - 2] = GitCmd("rev-parse", cs[i].repo, tag)
               /\ TagExists(cs[i].repo, tag)

DeleteStarts == command = "delete" /\ started'

\* C26 as stated: both repositories are processed in every run of delete
C26_Original ==
    [][DeleteStarts => BothProcessed(op_calls')]_vars

\* C26: delete starts with the pull-request closure step, before any tag
\* deletion; unless a command is missing from PATH (CommandNotFoundError
\* ends delete at once) it then processes dem2 and dem2-webui in this
\* order whatever the pull-request step did; in a repository the tag is
\* deleted on origin only right after its local deletion and only if
\* 'preview-<previewId>' was found locally; and when delete completes,
\* removed + skipped = 2.
C26_DeleteOrder ==
    [][DeleteStarts
          => /\ PrStepFirst(op_calls')
             /\ ({"which", "git"} \subseteq installed => BothProcessed(op_calls'))
             /\ PushAfterLocal(op_calls', PreviewTagOf(result'.preview_id))
             /\ (exit_code' = 0 => removed_count' + skipped_count' = 2)]_vars

\* delete completed: the pull request could not be closed and the tag was
\* removed from both repositories all the same
C26_Witness ==
    /\ Exited
    /\ command = "delete"
    /\ exit_code = 0
    /\ "pr close" \in refused
    /\ \E i \in 1..Len(op_calls) : IsPrClose(op_calls[i])
    /\ \E i \in 1..Len(op_calls) : op_calls[i] = GitCmd("push", "dem2", PreviewA)
    /\ \E i \in 1..Len(op_calls) : op_calls[i] = GitCmd("push", "dem2-webui", PreviewA)
    /\ removed_count = 2
    /\ skipped_count = 0

\* ------------------------------------------------------------------------
\* Properties of get_argocd_app_name
\* ------------------------------------------------------------------------
\* the number N of an ArgoApp identifier preview-pr-<N>
AppIdentifierNumber == ParseInt(ReMatchDigits(<<"preview-", "pr-">>, identifier).group)

\* get_argocd_app_name of the preview just returned, in the state the call
\* left
AppNameOfResult == GetArgocdAppName(result.preview_id)

\* the lookup of get_infra_pr_number finds no pull request whose head branch
\* is preview/<previewId>
NoInfraPrFound ==
    \/ ~GhAvailable
    \/ OpenPRsIn(prs, "dem2-infra", <<"preview/">> \o result.preview_id) = {}

\* C27: after resolve(ArgoApp, 'preview-pr-<N>') returned a preview,
\* get_argocd_app_name of it returns ('preview-pr-<N>', N) in the same
\* state; and get_argocd_app_name returns ('preview-<previewId>', None)
\* exactly when no infra pull request is found for preview/<previewId>.
C27_AppNameRoundTrip ==
    /\ (Done("argocd-app") /\ result.status = "ok")
          => /\ AppNameOfResult.number = AppIdentifierNumber
             /\ AppNameOfResult.name
                    = <<"preview-", "pr-">> \o FormatInt(AppIdentifierNumber)
    /\ (pc = "done" /\ result.status = "ok")
          => ((/\ AppNameOfResult.number = 0
               /\ AppNameOfResult.name = <<"preview-">> \o result.preview_id)
              <=> NoInfraPrFound)

\* ========================================================================
\* scripts/port_forward_service.py: kubectl port-forward for every port of
\* the configured services, each in a coroutine that restarts it.
\* The event loop runs one coroutine at a time up to its next await; a
\* process is alive from create_subprocess_shell until it exits by itself.
\* ========================================================================
\* shlex.quote(s): s itself when it is not empty and holds only characters
\* that are safe for the shell, else s in single quotes with each single
\* quote of it written '"'"'
ShellUnsafe == {" ", "'", "$", ";", "&"}
Quote(s) ==
    IF s = <<>> THEN <<"'", "'">>
    ELSE IF Chars(s) \cap ShellUnsafe = {} THEN s
    ELSE <<"'">> \o StrReplace(s, <<"'">>, <<"'", "\"", "'", "\"", "'">>) \o <<"'">>

\* cmd of start_port_forward:
\* kubectl port-forward -n <namespace> services/<name> <host_port>:<service_port>
PortForwardCmd(service_namespace, service_name, service_port, host_port) ==
    [namespace |-> Quote(service_namespace), service |-> Quote(service_name),
     host_port |-> host_port, service_port |-> service_port]

\* the coroutine start_port_forward returns, not started yet: task counts
\* the tasks made of it, alive its processes that have not exited,
\* returncode is the exit status of the last one that did (what proc.wait()
\* returns), -1 before any exited
NewCoro(cmd) ==
    [cmd |-> cmd, task |-> 0, at |-> "queued", alive |-> 0, spawned |-> cmd,
     returncode |-> -1]

\* the loops of amain over services["items"] and over the ports of a
\* service the config names: the commands of the coroutines it creates
RECURSIVE PortCmds(_, _)
PortCmds(service, ports) ==
    IF ports = <<>> THEN <<>>
    ELSE <<PortForwardCmd(service.namespace, service.name,
                          Head(ports).port, Head(ports).targetPort)>>
         \o PortCmds(service, Tail(ports))

RECURSIVE Forwarders(_, _)
Forwarders(items, targets) ==
    IF items = <<>> THEN <<>>
    ELSE (IF <<Head(items).namespace, Head(items).name>> \in targets
          THEN PortCmds(Head(items), Head(items).ports) ELSE <<>>)
         \o Forwarders(Tail(items), targets)

\* amain: `kubectl get services -A -o json` and its return code
AmainGetServices ==
    /\ pf_pc = "start"
    /\ pf_pc' = IF kubectl_rc # 0 THEN "raised" ELSE "put"
    /\ UNCHANGED <<services, kubectl_rc, config, coroq, tasks, tq_pc, fwd>>
    /\ UNCHANGED <<toolVars, importVars>>

\* amain: start_port_forward and `await coroq.put(coro)` for the next port
AmainPut ==
    /\ pf_pc = "put"
    /\ Len(fwd) < Len(Forwarders(services, config))
    /\ fwd' = Append(fwd, NewCoro(Forwarders(services, config)[Len(fwd) + 1]))
    /\ coroq' = Append(coroq, Len(fwd) + 1)
    /\ UNCHANGED <<services, kubectl_rc, config, pf_pc, tasks, tq_pc>>
    /\ UNCHANGED <<toolVars, importVars>>

\* amain: `await task_runner` after the loops; task_runner starts here
AmainAwaitRunner ==
    /\ pf_pc = "put"
    /\ Len(fwd) = Len(Forwarders(services, config))
    /\ pf_pc' = "first"
    /\ UNCHANGED <<services, kubectl_rc, config, coroq, tasks, tq_pc, fwd>>
    /\ UNCHANGED <<toolVars, importVars>>

\* track_task(coro): create_task, tasks.add
TrackTask(k) ==
    /\ fwd' = [fwd EXCEPT ![k].task = @ + 1, ![k].at = "spawn"]
    /\ tasks' = tasks \cup {k}

\* task_queue tracking what coroq.get() peeked at without taking it
TaskQueue_Peek ==
    /\ coroq # <<>>
    /\ coroq' = coroq
    /\ fwd' = [fwd EXCEPT ![Head(coroq)].task = IF @ < 2 THEN @ + 1 ELSE @,
                          ![Head(coroq)].at = "spawn"]
    /\ tasks' = tasks \cup {Head(coroq)}

\* task_queue(): `coro = await coroq.get()` waits for an item, then
\* track_task(coro); amain puts no None on the queue
TaskQueue ==
    /\ coroq # <<>>
    /\ coroq' = Tail(coroq)
    /\ TrackTask(Head(coroq))

\* task_runner: `await task_queue()` before the loop
RunnerFirst ==
    /\ pf_pc = "first"
    /\ TaskQueue
    /\ pf_pc' = "while"
    /\ UNCHANGED <<services, kubectl_rc, config, tq_pc>>
    /\ UNCHANGED <<toolVars, importVars>>

\* task_runner: `while tasks:`, then create_task(task_queue()) and
\* as_completed over it and the tasks
RunnerWhile ==
    /\ pf_pc = "while"
    /\ IF tasks = {}
       THEN pf_pc' = "returned" /\ tq_pc' = tq_pc
       ELSE pf_pc' = "await" /\ tq_pc' = "get"
    /\ UNCHANGED <<services, kubectl_rc, config, coroq, tasks, fwd>>
    /\ UNCHANGED <<toolVars, importVars>>

\* the task of task_queue() made in the loop gets its turn
TaskQueueTask ==
    /\ tq_pc = "get"
    /\ TaskQueue
    /\ tq_pc' = "done"
    /\ UNCHANGED <<services, kubectl_rc, config, pf_pc>>
    /\ UNCHANGED <<toolVars, importVars>>

\* task_runner: `await future; break` once the first of the futures is
\* done; the coroutines of start_port_forward never are
RunnerResume ==
    /\ pf_pc = "await"
    /\ tq_pc = "done"
    /\ pf_pc' = "while"
    /\ tq_pc' = "none"
    /\ UNCHANGED <<services, kubectl_rc, config, coroq, tasks, fwd>>
    /\ UNCHANGED <<toolVars, importVars>>

\* coro(): `proc = await create_subprocess_shell(cmd)`
Spawn(k) ==
    /\ k \in 1..Len(fwd)
    /\ fwd[k].at = "spawn"
    /\ fwd' = [fwd EXCEPT ![k].alive = @ + 1, ![k].spawned = fwd[k].cmd,
                          ![k].at = "wait"]
    /\ UNCHANGED <<services, kubectl_rc, config, pf_pc, coroq, tasks, tq_pc>>
    /\ UNCHANGED <<toolVars, importVars>>

\* the kubectl process of forwarder k exits with status rc
ProcExit(k, rc) ==
    /\ k \in 1..Len(fwd)
    /\ fwd[k].alive > 0
    /\ fwd' = [fwd EXCEPT ![k].alive = @ - 1, ![k].returncode = rc]
    /\ UNCHANGED <<services, kubectl_rc, config, pf_pc, coroq, tasks, tq_pc>>
    /\ UNCHANGED <<toolVars, importVars>>

\* coro() returning when the process exited with status 0
WaitReturns_StopOnSuccess(k) ==
    /\ k \in 1..Len(fwd)
    /\ fwd[k].at = "wait"
    /\ fwd[k].alive = 0
    /\ fwd' = [fwd EXCEPT ![k].at = IF fwd[k].returncode = 0 THEN "returned"
                                     ELSE "spawn"]
    /\ UNCHANGED <<services, kubectl_rc, config, pf_pc, coroq, tasks, tq_pc>>
    /\ UNCHANGED <<toolVars, importVars>>

\* coro(): `returncode = await proc.wait()` returns and `while True` loops
WaitReturns(k) ==
    /\ k \in 1..Len(fwd)
    /\ fwd[k].at = "wait"
    /\ fwd[k].alive = 0
    /\ fwd' = [fwd EXCEPT ![k].at = "spawn"]
    /\ UNCHANGED <<services, kubectl_rc, config, pf_pc, coroq, tasks, tq_pc>>
    /\ UNCHANGED <<toolVars, importVars>>

\* The services of the cluster and the configs of the model
Staging == <<"tusdi-staging">>
PortUniverse ==
    <<[port |-> 7474, targetPort |-> 7474], [port |-> 7687, targetPort |-> 17687],
      [port |-> 7473, targetPort |-> 7473]>>
ServiceItems ==
    <<[namespace |-> Staging, name |-> <<"neo4j">>,
       ports |-> SubSeq(PortUniverse, 1, MaxPorts)],
      [namespace |-> <<"other">>, name |-> <<"redis">>,
       ports |-> <<[port |-> 6379, targetPort |-> 6379]>>],
      [namespace |-> Staging, name |-> <<"redis">>,
       ports |-> <<[port |-> 6379, targetPort |-> 6379]>>]>>
ConfigTargets ==
    {<<Staging, <<"neo4j">>>>, <<Staging, <<"redis">>>>, <<Staging, <<"qdrant">>>>}
MaxCoros == MaxPorts + 1
ReturnCodes == {0, 1}

InitPf ==
    /\ services = ServiceItems
    /\ kubectl_rc \in ReturnCodes
    /\ config \in SUBSET ConfigTargets
    /\ pf_pc = "start"
    /\ coroq = <<>>
    /\ tasks = {}
    /\ tq_pc = "none"
    /\ fwd = <<>>
    /\ installed = AllTools
    /\ prs = [r \in Repos |-> NoPRs]
    /\ NoGitWorld
    /\ NoClusterWorld
    /\ NoWebuiWorld
    /\ NoCommandLine
    /\ id_type = ""
    /\ identifier = <<>>
    /\ pc = "off"
    /\ result = NoResult
    /\ calls = <<>>
    /\ prev = NoCall
    /\ NoImport

NextPf ==
    \/ AmainGetServices
    \/ AmainPut
    \/ AmainAwaitRunner
    \/ RunnerFirst
    \/ RunnerWhile
    \/ TaskQueueTask
    \/ RunnerResume
    \/ \E k \in 1..MaxCoros : Spawn(k)
    \/ \E k \in 1..MaxCoros, rc \in ReturnCodes : ProcExit(k, rc)
    \/ \E k \in 1..MaxCoros : WaitReturns(k)

\* the steps of the main coroutine: amain, then task_runner
MainSteps ==
    AmainGetServices \/ AmainPut \/ AmainAwaitRunner \/ RunnerFirst
        \/ RunnerWhile \/ RunnerResume

\* The event loop of asyncio gives every coroutine that can go on its turn
\* (its ready queue is first in, first out); nothing makes a process exit.
SpecPf ==
    /\ InitPf
    /\ [][NextPf]_vars
    /\ WF_vars(MainSteps)
    /\ WF_vars(TaskQueueTask)
    /\ \A k \in 1..MaxCoros : WF_vars(Spawn(k)) /\ WF_vars(WaitReturns(k))

\* ------------------------------------------------------------------------
\* Properties of the port forwarding service
\* ------------------------------------------------------------------------
Created(k) == k \in 1..Len(fwd)

\* the process of forwarder k has exited and coro() has not spawned again
ProcessGone(k) == Created(k) /\ fwd[k].at = "wait" /\ fwd[k].alive = 0

\* a process of forwarder k running its command is alive
ProcessAlive(k) == Created(k) /\ fwd[k].alive = 1 /\ fwd[k].spawned = fwd[k].cmd

\* C28: whenever the kubectl port-forward process of a forwarder exits,
\* with any return code, a new process with the same command is spawned
\* next; the forwarder never terminates; and at most one process of a
\* forwarder is alive at a time.
C28_RestartsForever ==
    /\ [](\A k \in 1..Len(fwd) : fwd[k].at # "returned" /\ fwd[k].alive <= 1)
    /\ \A k \in 1..MaxCoros : ProcessGone(k) ~> ProcessAlive(k)

\* a forwarder whose process exited with status 0 has a new process alive,
\* next to another forwarder whose process exited with status 1
C28_Witness ==
    \E k, j \in 1..Len(fwd) :
        /\ ProcessAlive(k)
        /\ fwd[k].returncode = 0
        /\ ProcessAlive(j)
        /\ fwd[j].returncode = 1

Queued(k) == \E i \in 1..Len(coroq) : coroq[i] = k

\* forwarder k was started as a task and the task is not done
Running(k) == Created(k) /\ fwd[k].task > 0 /\ fwd[k].at # "returned"

\* C29: every coroutine amain puts on the queue of the task runner is
\* eventually started as its own task, all of them run concurrently, none
\* is started twice, and task_runner does not return while a forwarder
\* task is running.
C29_AllStartedOnce ==
    /\ [](\A k \in 1..Len(fwd) : fwd[k].task <= 1)
    /\ [](pf_pc = "returned" => \A k \in 1..Len(fwd) : ~Running(k))
    /\ \A k \in 1..MaxCoros : Queued(k) ~> (Running(k) /\ fwd[k].task = 1 /\ k \in tasks)
    /\ (pf_pc = "first" /\ fwd # <<>>)
          ~> (\A k \in 1..Len(fwd) : Running(k) /\ fwd[k].task = 1)

\* every forwarder of a config naming two services is a task of its own
\* with its process alive, the queue is empty and task_runner is waiting
C29_Witness ==
    /\ Len(fwd) = MaxCoros
    /\ coroq = <<>>
    /\ pf_pc = "await"
    /\ tq_pc = "get"
    /\ tasks = 1..MaxCoros
    /\ \A k \in 1..Len(fwd) : fwd[k].task = 1 /\ ProcessAlive(k)

\* ========================================================================
\* scripts/import_k8s_environment.py: process_container_env, which reads
\* the environment of a container from its envFrom and env lists and the
\* ConfigMaps and Secrets of the namespace.
\* ========================================================================
\* dict.get(key, default) on a JSON object kept as pairs <<key, value>>
RECURSIVE Get(_, _, _)
Get(obj, key, default) ==
    IF obj = <<>> THEN default
    ELSE IF Head(obj)[1] = key THEN Head(obj)[2]
    ELSE Get(Tail(obj), key, default)

\* d[key] = value on a dict kept as a function
Put(d, key, value) ==
    [x \in DOMAIN d \cup {key} |-> IF x = key THEN value ELSE d[x]]

\* EnvVar(name, value, source, source_name, source_key, error); "None" and
\* the error <<>> stand for None
EnvVar(name, value, source, source_name, source_key, error) ==
    [name |-> name, value |-> value, source |-> source,
     source_name |-> source_name, source_key |-> source_key, error |-> error]

\* base64.b64decode(value).decode("utf-8"), the value itself when it is not
\* base64
B64Decode(value) ==
    CASE value = "c2VjLWE=" -> "sec-a"
      [] value = "c2VjLWI=" -> "sec-b"
      [] OTHER -> value

\* run_kubectl(["get", kind, name, "-o", "json"]) is run
Fetch(s, kind, name) ==
    [s EXCEPT !.fetches = Append(@, [kind |-> kind, name |-> name])]

\* a name is taken to be cached only if what is cached for it is not None
InCache_NotNone(cache, name) ==
    name \in DOMAIN cache /\ cache[name].status # "notfound"

\* `name in cache`
InCache(cache, name) == name \in DOMAIN cache

\* `if cm_name not in configmap_cache: configmap_cache[cm_name] =
\* get_configmap(namespace, cm_name)`; get_configmap returns None for a
\* ConfigMap that is not found and lets every other KubectlError through
LookupConfigmap(s, name) ==
    LET answer == cluster.configmaps[name]
        fetched == Fetch(s, "configmap", name)
    IN  IF InCache(s.configmap_cache, name) THEN s
        ELSE IF answer.status = "error" THEN [fetched EXCEPT !.raised = TRUE]
        ELSE [fetched EXCEPT !.configmap_cache = Put(@, name, answer)]

\* the same for secret_cache and get_secret, which decodes the data
LookupSecret(s, name) ==
    LET answer == cluster.secrets[name]
        decoded == [answer EXCEPT
                       !.data = [k \in DOMAIN answer.data |-> B64Decode(answer.data[k])]]
        fetched == Fetch(s, "secret", name)
    IN  IF InCache(s.secret_cache, name) THEN s
        ELSE IF answer.status = "error" THEN [fetched EXCEPT !.raised = TRUE]
        ELSE [fetched EXCEPT !.secret_cache = Put(@, name, decoded)]

\* " (optional)" appended to an error message
OptionalSuffix(optional) == IF optional THEN <<" (optional)">> ELSE <<>>

\* `"optional" in error.lower()`; no name of the model holds the word
MentionsOptional(error) == \E i \in 1..Len(error) : error[i] = " (optional)"

\* the loop over data.items() of resolve_env_from_configmap and
\* resolve_env_from_secret, and result.env_vars.update(vars_dict)
UpdateFromData(env_vars, prefix, data, source, source_name) ==
    LET names == {prefix \o <<k>> : k \in DOMAIN data}
        KeyOf(n) == CHOOSE k \in DOMAIN data : n = prefix \o <<k>>
    IN  [n \in DOMAIN env_vars \cup names |->
            IF n \in names
            THEN EnvVar(n, data[KeyOf(n)], source, source_name, KeyOf(n), <<>>)
            ELSE env_vars[n]]

\* resolve_env_from_configmap(ref, prefix, namespace, configmap_cache)
ResolveEnvFromConfigmap(s, ref, prefix) ==
    LET looked == LookupConfigmap(s, ref.name)
        cm == looked.configmap_cache[ref.name]
    IN  IF looked.raised THEN looked
        ELSE IF cm.status = "notfound"
        THEN IF ref.optional THEN looked
             ELSE [looked EXCEPT !.errors =
                      Append(@, <<"ConfigMap '", ref.name, "' not found (envFrom)">>)]
        ELSE [looked EXCEPT !.env_vars =
                 UpdateFromData(@, prefix, cm.data, "configmap", ref.name)]

\* resolve_env_from_secret(ref, prefix, namespace, secret_cache)
ResolveEnvFromSecret(s, ref, prefix) ==
    LET looked == LookupSecret(s, ref.name)
        secret == looked.secret_cache[ref.name]
    IN  IF looked.raised THEN looked
        ELSE IF secret.status = "notfound"
        THEN IF ref.optional THEN looked
             ELSE [looked EXCEPT !.errors =
                      Append(@, <<"Secret '", ref.name, "' not found (envFrom)">>)]
        ELSE [looked EXCEPT !.env_vars =
                 UpdateFromData(@, prefix, secret.data, "secret", ref.name)]

\* resolve_env_from and the update of result in the first loop
ResolveEnvFrom(s, env_from_spec) ==
    LET prefix == env_from_spec.prefix
        cm == IF env_from_spec.configMapRef.present
              THEN ResolveEnvFromConfigmap(s, env_from_spec.configMapRef, prefix)
              ELSE s
        both == IF cm.raised \/ ~env_from_spec.secretRef.present THEN cm
                ELSE ResolveEnvFromSecret(cm, env_from_spec.secretRef, prefix)
    IN  IF both.raised
        THEN [both EXCEPT !.env_vars = s.env_vars, !.errors = s.errors]
        ELSE both

Resolution(s, var) == [s |-> s, var |-> var]

\* resolve_configmap_ref(name, value_from, namespace, configmap_cache)
ResolveConfigmapRef(s, name, ref) ==
    LET looked == LookupConfigmap(s, ref.name)
        cm == looked.configmap_cache[ref.name]
        Failed(error) ==
            EnvVar(name, "None", "configmap", ref.name, ref.key,
                   error \o OptionalSuffix(ref.optional))
    IN  IF looked.raised
        THEN Resolution(looked, EnvVar(name, "None", "configmap", "", "", <<>>))
        ELSE IF cm.status = "notfound"
        THEN Resolution(looked, Failed(<<"ConfigMap '", ref.name, "' not found">>))
        ELSE IF ref.key \notin DOMAIN cm.data
        THEN Resolution(looked, Failed(<<"Key '", ref.key, "' not found in ConfigMap '",
                                         ref.name, "'">>))
        ELSE Resolution(looked, EnvVar(name, cm.data[ref.key], "configmap",
                                       ref.name, ref.key, <<>>))

\* resolve_secret_ref(name, value_from, namespace, secret_cache)
ResolveSecretRef(s, name, ref) ==
    LET looked == LookupSecret(s, ref.name)
        secret == looked.secret_cache[ref.name]
        Failed(error) ==
            EnvVar(name, "None", "secret", ref.name, ref.key,
                   error \o OptionalSuffix(ref.optional))
    IN  IF looked.raised
        THEN Resolution(looked, EnvVar(name, "None", "secret", "", "", <<>>))
        ELSE IF secret.status = "notfound"
        THEN Resolution(looked, Failed(<<"Secret '", ref.name, "' not found">>))
        ELSE IF ref.key \notin DOMAIN secret.data
        THEN Resolution(looked, Failed(<<"Key '", ref.key, "' not found in Secret '",
                                         ref.name, "'">>))
        ELSE Resolution(looked, EnvVar(name, secret.data[ref.key], "secret",
                                       ref.name, ref.key, <<>>))

\* resolve_env_var(env_spec, ...) with resolve_value_from
ResolveEnvVar(s, env_spec) ==
    LET name == env_spec.name
        value_from == env_spec.valueFrom
    IN  IF env_spec.has_value
        THEN Resolution(s, EnvVar(name, env_spec.value, "direct", "None", "None", <<>>))
        ELSE IF value_from.kind = "configMapKeyRef"
        THEN ResolveConfigmapRef(s, name, value_from)
        ELSE IF value_from.kind = "secretKeyRef"
        THEN ResolveSecretRef(s, name, value_from)
        ELSE IF value_from.kind = "fieldRef"
        THEN Resolution(s, EnvVar(name, "None", "fieldref", value_from.name, "None",
                                  <<"FieldRef '", value_from.name,
                                    "' cannot be resolved locally">>))
        ELSE Resolution(s, EnvVar(name, "None", "unknown", "None", "None",
                                  <<"Unknown valueFrom type">>))

\* the body of the second loop after resolve_env_var:
\* result.env_vars[env_var.name] = env_var, then the error or the warning
StoreEnvVar(s, env_var) ==
    LET stored == [s EXCEPT !.env_vars = Put(@, env_var.name, env_var)]
        line == env_var.name \o <<": ">> \o env_var.error
    IN  IF env_var.error = <<>> THEN stored
        ELSE IF ~MentionsOptional(env_var.error)
        THEN [stored EXCEPT !.errors = Append(@, line)]
        ELSE [stored EXCEPT !.warnings = Append(@, line)]

\* process_container_env: one turn of the loop over envFrom
ProcessEnvFrom ==
    /\ imp_pc = "envFrom"
    /\ env_from_left # <<>>
    /\ imp' = ResolveEnvFrom(imp, Head(env_from_left))
    /\ env_from_left' = Tail(env_from_left)
    /\ imp_pc' = IF imp'.raised THEN "raised" ELSE "envFrom"
    /\ UNCHANGED <<cluster, container_spec, env_left>>
    /\ UNCHANGED <<toolVars, pfVars>>

\* process_container_env: the first loop is over, env_list is read
StartEnvLoop ==
    /\ imp_pc = "envFrom"
    /\ env_from_left = <<>>
    /\ env_left' = Get(container_spec, "env", <<>>)
    /\ imp_pc' = "env"
    /\ UNCHANGED <<cluster, container_spec, env_from_left, imp>>
    /\ UNCHANGED <<toolVars, pfVars>>

\* process_container_env: one turn of the loop over env
ProcessEnv ==
    /\ imp_pc = "env"
    /\ env_left # <<>>
    /\ LET resolved == ResolveEnvVar(imp, Head(env_left))
       IN  imp' = IF resolved.s.raised THEN resolved.s
                  ELSE StoreEnvVar(resolved.s, resolved.var)
    /\ env_left' = Tail(env_left)
    /\ imp_pc' = IF imp'.raised THEN "raised" ELSE "env"
    /\ UNCHANGED <<cluster, container_spec, env_from_left>>
    /\ UNCHANGED <<toolVars, pfVars>>

\* process_container_env returns
ProcessReturn ==
    /\ imp_pc = "env"
    /\ env_left = <<>>
    /\ imp_pc' = "done"
    /\ UNCHANGED <<cluster, container_spec, env_from_left, env_left, imp>>
    /\ UNCHANGED <<toolVars, pfVars>>

\* The container specs and the namespaces of the model
Ref(name, optional) == [present |-> TRUE, name |-> name, optional |-> optional]
NoRef == [present |-> FALSE, name |-> "", optional |-> FALSE]
EnvFromUniverse ==
    {[prefix |-> <<>>, configMapRef |-> Ref("cfg", FALSE), secretRef |-> NoRef],
     [prefix |-> <<"P_">>, configMapRef |-> NoRef, secretRef |-> Ref("sec", FALSE)],
     [prefix |-> <<>>, configMapRef |-> Ref("shared", TRUE), secretRef |-> NoRef]}

Direct(name, value) ==
    [name |-> name, has_value |-> TRUE, value |-> value,
     valueFrom |-> [kind |-> "none", name |-> "", key |-> "", optional |-> FALSE]]
ValueFrom(name, kind, ref, key, optional) ==
    [name |-> name, has_value |-> FALSE, value |-> "None",
     valueFrom |-> [kind |-> kind, name |-> ref, key |-> key, optional |-> optional]]
EnvUniverse ==
    {Direct(<<"A">>, "direct-a"),
     ValueFrom(<<"B">>, "configMapKeyRef", "cfg", "C", FALSE),
     ValueFrom(<<"P_", "A">>, "secretKeyRef", "sec", "B", FALSE),
     ValueFrom(<<"A">>, "configMapKeyRef", "shared", "A", TRUE)}

\* sequences of at most n elements of S
RECURSIVE SeqsUpTo(_, _)
SeqsUpTo(S, n) ==
    IF n = 0 THEN {<<>>}
    ELSE LET shorter == SeqsUpTo(S, n - 1)
         IN  shorter \cup {Append(q, x) : q \in shorter, x \in S}

Found(data) == [status |-> "ok", data |-> data]
NotFoundAnswer == [status |-> "notfound", data |-> <<>>]
FailingAnswer == [status |-> "error", data |-> <<>>]
CfgData == [k \in {"A", "B"} |-> IF k = "A" THEN "cfg-a" ELSE "cfg-b"]
SecData == [k \in {"A", "B"} |-> IF k = "A" THEN "c2VjLWE=" ELSE "not base64"]
Clusters ==
    {[configmaps |-> [n \in {"cfg", "shared"} |->
                        IF n = "cfg" THEN cfg ELSE NotFoundAnswer],
      secrets |-> [n \in {"sec"} |-> sec]] :
        cfg \in {Found(CfgData), NotFoundAnswer, FailingAnswer},
        sec \in {Found(SecData), NotFoundAnswer}}

InitImport ==
    /\ cluster \in Clusters
    /\ \E env_from \in SeqsUpTo(EnvFromUniverse, MaxEntries),
          env \in SeqsUpTo(EnvUniverse, MaxEntries) :
          /\ container_spec \in {<<<<"envFrom", env_from>>, <<"env", env>>>>,
                                 <<<<"env", env>>, <<"envFrom", env_from>>>>}
          /\ env_from_left = env_from
    /\ imp_pc = "envFrom"
    /\ env_left = <<>>
    /\ imp = EmptyImport
    /\ NoPortForward
    /\ installed = AllTools
    /\ prs = [r \in Repos |-> NoPRs]
    /\ NoGitWorld
    /\ NoClusterWorld
    /\ NoWebuiWorld
    /\ NoCommandLine
    /\ id_type = ""
    /\ identifier = <<>>
    /\ pc = "off"
    /\ result = NoResult
    /\ calls = <<>>
    /\ prev = NoCall

NextImport ==
    \/ ProcessEnvFrom
    \/ StartEnvLoop
    \/ ProcessEnv
    \/ ProcessReturn

SpecImport == InitImport /\ [][NextImport]_vars

\* ---- C30 ----
EnvList == Get(container_spec, "env", <<>>)
EnvFromList == Get(container_spec, "envFrom", <<>>)

\* no later entry of env has the name of entry i
LastOfName(i) ==
    \A j \in (i + 1)..Len(EnvList) : EnvList[j].name # EnvList[i].name

\* what an env entry alone stands for in this namespace
FromEnvEntry(e) == ResolveEnvVar(EmptyImport, e).var

\* how often `kubectl get` was run for a ConfigMap or a Secret of a name
TimesFetched(kind, name) ==
    Cardinality({i \in 1..Len(imp.fetches) :
                    imp.fetches[i] = [kind |-> kind, name |-> name]})

\* C30: when process_container_env has returned, every variable an env
\* entry names is the variable of the last env entry of that name, whatever
\* envFrom defined under the name and whichever list the container spec
\* holds first; and at every moment of the import each ConfigMap and each
\* Secret has been fetched at most once, a fetch that found nothing included.
C30_EnvWinsAndFetchedOnce ==
    /\ \A f \in Chars(imp.fetches) : TimesFetched(f.kind, f.name) = 1
    /\ imp_pc = "done" =>
          \A i \in 1..Len(EnvList) :
              LastOfName(i) =>
                  /\ EnvList[i].name \in DOMAIN imp.env_vars
                  /\ imp.env_vars[EnvList[i].name] = FromEnvEntry(EnvList[i])

\* the import is over; the container spec holds env before envFrom; envFrom
\* brought A of ConfigMap cfg and env set A directly, and A is the direct
\* one; ConfigMap shared, which is not found, was asked for by envFrom and
\* by env and was fetched once
C30_Witness ==
    /\ imp_pc = "done"
    /\ container_spec[1][1] = "env"
    /\ cluster.configmaps["cfg"].status = "ok"
    /\ \E i \in 1..Len(EnvFromList) : EnvFromList[i].configMapRef.name = "cfg"
    /\ \E i \in 1..Len(EnvFromList) : EnvFromList[i].configMapRef.name = "shared"
    /\ \E j \in 1..Len(EnvList) : EnvList[j].valueFrom.name = "shared"
    /\ imp.env_vars[<<"A">>].value = "direct-a"
    /\ TimesFetched("configmap", "shared") = 1

====
